---- MODULE Spec2Model ----
(***************************************************************************)
(* Moduz+ : tenant-scoped module authorization and audit subsystem.        *)
(*                                                                         *)
(* The state is the content of the tables profiles, modules_enabled and    *)
(* audit_log, the database clock, and the API requests in flight.  Every   *)
(* request handler is cut at its awaits on the database: one action per    *)
(* database round trip, with the local computation that precedes it.       *)
(* Spec runs two concurrent requests; SpecAuth runs requests in sequence   *)
(* against memberships that change.                                        *)
(***************************************************************************)
EXTENDS Integers, Sequences, FiniteSets, TLC

(***************************************************************************)
(* Bounds of the model.                                                    *)
(***************************************************************************)
\* Largest value of the database clock now().
MaxClock == 1
\* Number of environment inputs of SpecAuth after the first request
\* (further requests on the connection, membership changes).
MaxOps == 1

\* Events in the audit log the audit page is opened on.
MaxEvents == 3

\* Largest limit parameter an audit list request carries.
MaxLimit == 2

\* Documents already stored when the docs list is exercised.
MaxDocs == 2

(***************************************************************************)
(* Principals, tenants, request slots.                                     *)
(***************************************************************************)
Users == {"u1", "u2", "u3"}
NoUser == "nouser"
Tenants == {"t1", "t2"}
NoHeader == "noheader"
Slots == {"s1", "s2"}

(***************************************************************************)
(* Module catalog.                                                         *)
(***************************************************************************)
VALID_MODULES ==
  {"core", "docs", "people", "track", "finance", "bizz", "stock", "assets", "flow"}

MODULES ==
  [ core    |-> [implemented |-> TRUE,  locked |-> TRUE],
    docs    |-> [implemented |-> TRUE,  locked |-> FALSE],
    people  |-> [implemented |-> FALSE, locked |-> FALSE],
    track   |-> [implemented |-> FALSE, locked |-> FALSE],
    finance |-> [implemented |-> FALSE, locked |-> FALSE],
    bizz    |-> [implemented |-> FALSE, locked |-> FALSE],
    stock   |-> [implemented |-> FALSE, locked |-> FALSE],
    assets  |-> [implemented |-> FALSE, locked |-> FALSE],
    flow    |-> [implemented |-> FALSE, locked |-> FALSE] ]

\* The rows moduz_core_seed_modules inserts: module -> enabled.
SeedValues ==
  [ core    |-> TRUE,  docs   |-> TRUE,  people |-> FALSE,
    track   |-> FALSE, finance |-> FALSE, bizz  |-> FALSE,
    stock   |-> FALSE, assets |-> FALSE, flow   |-> FALSE ]

\* module_key values a toggle request body carries in the model.
BodyKeys == {"core", "docs", "people", "ghost"}

VARIABLES
  profiles,         \* table public.profiles: a set of rows
  modules_enabled,  \* table public.modules_enabled: a set of rows
  audit_log,        \* table public.audit_log: rows in insertion order
  settings,         \* table public.settings: a set of rows
  now,              \* the clock behind now() and new Date()
  req,              \* req[s]: the request slot s is handling
  ops,              \* environment inputs counted against MaxOps
  toggled,          \* history: tenants a toggle upsert has committed for
  docs,             \* table public.docs: a set of rows
  pager,            \* the audit page of the admin console: what it has loaded
  auditLost,        \* history: some audit insert has failed
  guard,            \* the navigation guard of the admin console
  shell,            \* the admin shell: active tenant, enabled set, menu, cache
  page,             \* the modules page: rows shown, busy key, toast, toggle in flight
  completed         \* history: the documents whose complete call was answered 200

vars ==
  <<profiles, modules_enabled, audit_log, settings, now, req, ops, toggled,
    docs, pager, auditLost, guard, shell, page, completed>>


(***************************************************************************)
(* Rows and responses.                                                     *)
(***************************************************************************)
InitProfiles ==
  { [id |-> "p1", user_id |-> "u1", empresa_id |-> "t1", role |-> "admin",
     ativo |-> TRUE, created_at |-> 1],
    [id |-> "p2", user_id |-> "u2", empresa_id |-> "t1", role |-> "admin",
     ativo |-> TRUE, created_at |-> 2],
    [id |-> "p3", user_id |-> "u3", empresa_id |-> "t1", role |-> "interno",
     ativo |-> TRUE, created_at |-> 3],
    [id |-> "p4", user_id |-> "u1", empresa_id |-> "t2", role |-> "admin",
     ativo |-> FALSE, created_at |-> 4],
    [id |-> "p5", user_id |-> "u3", empresa_id |-> "t2", role |-> "admin",
     ativo |-> TRUE, created_at |-> 5] }

NoRow == [module_key |-> "", enabled |-> FALSE, enabled_at |-> -1, updated_at |-> -1]

NoResp ==
  [status |-> 0, error |-> "", audit |-> "", module |-> NoRow,
   modules |-> <<>>, items |-> <<>>, doc |-> 0,
   empresas |-> <<>>, default_empresa_id |-> "", profile |-> ""]

ErrResp(status, error) == [NoResp EXCEPT !.status = status, !.error = error]

Idle ==
  [pc |-> "idle", kind |-> "none", userId |-> NoUser, hdr |-> NoHeader,
   moduleKey |-> "", enabled |-> FALSE,
   patch |-> "", empresaId |-> NoHeader, profileId |-> "", fault |-> FALSE,
   data |-> NoRow, docId |-> 0, resp |-> NoResp]

\* The navigation guard before it is mounted.
NoGuard ==
  [pc |-> "unmounted", asked |-> <<>>, pathname |-> <<>>, enabledKeys |-> {},
   empresaId |-> NoHeader, allowed |-> TRUE, reason |-> "", redirect |-> <<>>]

\* The admin shell before it is mounted: no tenant, CORE_ONLY, the Core item.
NoShell ==
  [pc |-> "off", userId |-> NoUser, empresaId |-> NoHeader,
   enabledKeys |-> {"core"}, menu |-> <<"core">>,
   cache |-> [e \in Tenants |-> {}], fresh |-> {}]

\* The modules page before it is mounted; tog remembers, for the toggle in
\* flight or last answered, what was shown when it started.
NoPage ==
  [pc |-> "off", empresaId |-> NoHeader, rows |-> <<>>, err |-> "", toast |-> "",
   busyKey |-> "",
   tog |-> [moduleKey |-> "", enabled |-> FALSE, before |-> FALSE,
            headerBefore |-> {}]]

\* The audit page before its first load.
NoPager ==
  [pc |-> "closed", empresaId |-> NoHeader, limit |-> <<>>, items |-> <<>>,
   nextCursor |-> -1, err |-> "", toast |-> ""]

\* What a caller can put in a role header or body field; no handler reads it.
ClaimedRoles == {"", "admin"}

(***************************************************************************)
(* Authorization gate.                                                     *)
(***************************************************************************)
\* Variant of ProfileRows: the membership as it was when the session began.
ProfileRows_Cached(u, e) == {p \in InitProfiles : p.user_id = u /\ p.empresa_id = e}

\* .from("profiles").eq("user_id", u).eq("empresa_id", e)
ProfileRows(u, e) == {p \in profiles : p.user_id = u /\ p.empresa_id = e}

Deny(status, error) ==
  [ok |-> FALSE, status |-> status, error |-> error, profileId |-> "",
   empresaId |-> NoHeader]

Allow(empresaId, profileId) ==
  [ok |-> TRUE, status |-> 200, error |-> "", profileId |-> profileId,
   empresaId |-> empresaId]

\* Variant of AssertAdmin: the role test is missing.
AssertAdmin_NoRoleTest(userId, empresaId, claimedRole, lookupFails) ==
  LET rows == ProfileRows(userId, empresaId) IN
  IF lookupFails \/ Cardinality(rows) > 1 THEN Deny(500, "PROFILE_LOOKUP_FAILED")
  ELSE IF rows = {} THEN Deny(403, "NO_PROFILE")
  ELSE LET profile == CHOOSE p \in rows : TRUE IN
       IF profile.ativo = FALSE THEN Deny(403, "NO_PROFILE")
       ELSE Allow(empresaId, profile.id)

\* Variant of AssertAdmin: the role is tested before ativo.
AssertAdmin_RoleFirst(userId, empresaId, claimedRole, lookupFails) ==
  LET rows == ProfileRows(userId, empresaId) IN
  IF lookupFails \/ Cardinality(rows) > 1 THEN Deny(500, "PROFILE_LOOKUP_FAILED")
  ELSE IF rows = {} THEN Deny(403, "NO_PROFILE")
  ELSE LET profile == CHOOSE p \in rows : TRUE IN
       IF profile.role # "admin" THEN Deny(403, "NOT_ADMIN")
       ELSE IF profile.ativo = FALSE THEN Deny(403, "NO_PROFILE")
       ELSE Allow(empresaId, profile.id)

\* Variant of AssertAdmin: a role the caller sends is believed.
AssertAdmin_TrustsCaller(userId, empresaId, claimedRole, lookupFails) ==
  LET rows == ProfileRows(userId, empresaId) IN
  IF claimedRole = "admin" THEN Allow(empresaId, "")
  ELSE IF lookupFails \/ Cardinality(rows) > 1 THEN Deny(500, "PROFILE_LOOKUP_FAILED")
  ELSE IF rows = {} THEN Deny(403, "NO_PROFILE")
  ELSE LET profile == CHOOSE p \in rows : TRUE IN
       IF profile.ativo = FALSE THEN Deny(403, "NO_PROFILE")
       ELSE IF profile.role # "admin" THEN Deny(403, "NOT_ADMIN")
       ELSE Allow(empresaId, profile.id)

\* assertAdmin of the route handlers, after getUser() has yielded r.userId.
AssertAdmin(userId, empresaId, claimedRole, lookupFails) ==
  LET rows == ProfileRows(userId, empresaId) IN
  IF lookupFails \/ Cardinality(rows) > 1 THEN Deny(500, "PROFILE_LOOKUP_FAILED")
  ELSE IF rows = {} THEN Deny(403, "NO_PROFILE")
  ELSE LET profile == CHOOSE p \in rows : TRUE IN
       IF profile.ativo = FALSE THEN Deny(403, "NO_PROFILE")
       ELSE IF profile.role # "admin" THEN Deny(403, "NOT_ADMIN")
       ELSE Allow(empresaId, profile.id)

(***************************************************************************)
(* Module flag store.                                                      *)
(***************************************************************************)
TenantRows(rows, e) == {row \in rows : row.empresa_id = e}

KeyRows(rows, e, k) == {row \in rows : row.empresa_id = e /\ row.module_key = k}

\* tg_modules_enabled_guardrails: raises on core with enabled = false.
GuardrailRaises(row) == row.module_key = "core" /\ row.enabled = FALSE

\* Variant of Seed: a plain insert, which the unique constraint rejects as a
\* whole when any of the rows exists.
Seed_PlainInsert(rows, e, t) ==
  LET fresh == { [empresa_id |-> e, module_key |-> k, enabled |-> SeedValues[k],
                  enabled_at |-> t, updated_at |-> t] : k \in VALID_MODULES }
  IN IF TenantRows(rows, e) # {}
     THEN [rows |-> rows, err |-> TRUE]
     ELSE [rows |-> rows \cup fresh, err |-> FALSE]

\* Variant of Seed: on conflict do update set enabled = excluded.enabled.
Seed_Overwrite(rows, e, t) ==
  LET Seeded(k) ==
        IF KeyRows(rows, e, k) = {}
        THEN {[empresa_id |-> e, module_key |-> k, enabled |-> SeedValues[k],
               enabled_at |-> t, updated_at |-> t]}
        ELSE {[row EXCEPT !.enabled = SeedValues[k], !.updated_at = t] :
                row \in KeyRows(rows, e, k)}
  IN [rows |-> (rows \ TenantRows(rows, e)) \cup UNION {Seeded(k) : k \in VALID_MODULES},
      err |-> FALSE]

\* moduz_core_seed_modules: insert ... on conflict (empresa_id, module) do nothing.
\* enabled_at and updated_at take their column default now().
Seed(rows, e, t) ==
  LET missing == {k \in VALID_MODULES : KeyRows(rows, e, k) = {}}
      fresh == { [empresa_id |-> e, module_key |-> k, enabled |-> SeedValues[k],
                  enabled_at |-> t, updated_at |-> t] : k \in missing }
  IN [rows |-> rows \cup fresh,
      err |-> \E row \in fresh : GuardrailRaises(row)]

\* Variant of TogglePatch: enabled_at is never sent.
TogglePatch_NoStamp(e, k, en, t) ==
  [empresa_id |-> e, module_key |-> k, enabled |-> en,
   has_enabled_at |-> FALSE, enabled_at |-> t]

\* The patch the toggle route builds: enabled_at is sent only when enabling.
TogglePatch(e, k, en, t) ==
  [empresa_id |-> e, module_key |-> k, enabled |-> en,
   has_enabled_at |-> en, enabled_at |-> t]

Project(row) ==
  [module_key |-> row.module_key, enabled |-> row.enabled,
   enabled_at |-> row.enabled_at, updated_at |-> row.updated_at]

\* Variant of Upsert: enabled_at is rewritten by every write, as a column
\* default applied on update would do.
Upsert_StampsAlways(rows, patch, t) ==
  LET old == KeyRows(rows, patch.empresa_id, patch.module_key)
      written ==
        {[empresa_id |-> patch.empresa_id, module_key |-> patch.module_key,
          enabled |-> patch.enabled, enabled_at |-> t, updated_at |-> t]}
  IN IF patch.module_key \notin VALID_MODULES
        \/ (\E row \in written : GuardrailRaises(row))
     THEN [rows |-> rows, err |-> TRUE, data |-> NoRow]
     ELSE [rows |-> (rows \ old) \cup written, err |-> FALSE,
           data |-> Project(CHOOSE row \in written : TRUE)]

\* Variant of Upsert: a plain insert, which the unique constraint rejects when
\* the row exists.
Upsert_PlainInsert(rows, patch, t) ==
  LET old == KeyRows(rows, patch.empresa_id, patch.module_key)
      inserted ==
        [empresa_id |-> patch.empresa_id, module_key |-> patch.module_key,
         enabled |-> patch.enabled,
         enabled_at |-> IF patch.has_enabled_at THEN patch.enabled_at ELSE t,
         updated_at |-> t]
  IN IF patch.module_key \notin VALID_MODULES \/ GuardrailRaises(inserted) \/ old # {}
     THEN [rows |-> rows, err |-> TRUE, data |-> NoRow]
     ELSE [rows |-> rows \cup {inserted}, err |-> FALSE, data |-> Project(inserted)]

\* Variant of Upsert: the conflict target is module_key alone, so the rows of
\* the module in every tenant take the patch.
Upsert_ByModuleOnly(rows, patch, t) ==
  LET old == {row \in rows : row.module_key = patch.module_key}
      Updated(row) ==
        [row EXCEPT !.enabled = patch.enabled,
                    !.enabled_at = IF patch.has_enabled_at THEN patch.enabled_at ELSE @,
                    !.updated_at = t]
      inserted ==
        [empresa_id |-> patch.empresa_id, module_key |-> patch.module_key,
         enabled |-> patch.enabled,
         enabled_at |-> IF patch.has_enabled_at THEN patch.enabled_at ELSE t,
         updated_at |-> t]
      own == KeyRows(rows, patch.empresa_id, patch.module_key)
      written == IF own = {} THEN {inserted} ELSE {Updated(row) : row \in own}
  IN IF patch.module_key \notin VALID_MODULES
        \/ (\E row \in written : GuardrailRaises(row))
        \/ Cardinality(written) # 1
     THEN [rows |-> rows, err |-> TRUE, data |-> NoRow]
     ELSE [rows |-> (rows \ old) \cup written \cup {Updated(row) : row \in old \ own},
           err |-> FALSE,
           data |-> Project(CHOOSE row \in written : TRUE)]

\* Variant of Upsert: updated_at is set only when the enabled value changes.
Upsert_StampOnChange(rows, patch, t) ==
  LET old == KeyRows(rows, patch.empresa_id, patch.module_key)
      Updated(row) ==
        [row EXCEPT !.enabled = patch.enabled,
                    !.enabled_at = IF patch.has_enabled_at THEN patch.enabled_at ELSE @,
                    !.updated_at = IF row.enabled = patch.enabled THEN @ ELSE t]
      inserted ==
        [empresa_id |-> patch.empresa_id, module_key |-> patch.module_key,
         enabled |-> patch.enabled,
         enabled_at |-> IF patch.has_enabled_at THEN patch.enabled_at ELSE t,
         updated_at |-> t]
      written == IF old = {} THEN {inserted} ELSE {Updated(row) : row \in old}
  IN IF patch.module_key \notin VALID_MODULES
        \/ (\E row \in written : GuardrailRaises(row))
        \/ Cardinality(written) # 1
     THEN [rows |-> rows, err |-> TRUE, data |-> NoRow]
     ELSE [rows |-> (rows \ old) \cup written, err |-> FALSE,
           data |-> Project(CHOOSE row \in written : TRUE)]

\* .upsert(patch, {onConflict: "empresa_id,module_key"}).select(...).single()
\* A conflicting row takes the columns of the patch and the updated_at trigger
\* sets updated_at = now(); otherwise the patch is inserted with column defaults.
Upsert(rows, patch, t) ==
  LET old == KeyRows(rows, patch.empresa_id, patch.module_key)
      Updated(row) ==
        [row EXCEPT !.enabled = patch.enabled,
                    !.enabled_at = IF patch.has_enabled_at THEN patch.enabled_at ELSE @,
                    !.updated_at = t]
      inserted ==
        [empresa_id |-> patch.empresa_id, module_key |-> patch.module_key,
         enabled |-> patch.enabled,
         enabled_at |-> IF patch.has_enabled_at THEN patch.enabled_at ELSE t,
         updated_at |-> t]
      written == IF old = {} THEN {inserted} ELSE {Updated(row) : row \in old}
  IN IF patch.module_key \notin VALID_MODULES
        \/ (\E row \in written : GuardrailRaises(row))
        \/ Cardinality(written) # 1
     THEN [rows |-> rows, err |-> TRUE, data |-> NoRow]
     ELSE [rows |-> (rows \ old) \cup written, err |-> FALSE,
           data |-> Project(CHOOSE row \in written : TRUE)]

(***************************************************************************)
(* order("module_key", {ascending: true}): text comparison of the keys.    *)
(***************************************************************************)
Letters(k) ==
  CASE k = "assets"  -> <<1, 19, 19, 5, 20, 19>>
    [] k = "bizz"    -> <<2, 9, 26, 26>>
    [] k = "core"    -> <<3, 15, 18, 5>>
    [] k = "docs"    -> <<4, 15, 3, 19>>
    [] k = "finance" -> <<6, 9, 14, 1, 14, 3, 5>>
    [] k = "flow"    -> <<6, 12, 15, 23>>
    [] k = "people"  -> <<16, 5, 15, 16, 12, 5>>
    [] k = "stock"   -> <<19, 20, 15, 3, 11>>
    [] k = "track"   -> <<20, 18, 1, 3, 11>>
    [] OTHER         -> <<>>

RECURSIVE LexLess(_, _)
LexLess(a, b) ==
  IF b = <<>> THEN FALSE
  ELSE IF a = <<>> THEN TRUE
  ELSE IF Head(a) < Head(b) THEN TRUE
  ELSE IF Head(a) > Head(b) THEN FALSE
  ELSE LexLess(Tail(a), Tail(b))

RECURSIVE OrderByKey(_)
OrderByKey(rows) ==
  IF rows = {} THEN <<>>
  ELSE LET first == CHOOSE x \in rows :
                      \A y \in rows : ~LexLess(Letters(y.module_key), Letters(x.module_key))
       IN <<first>> \o OrderByKey(rows \ {first})

\* The order the module registry displays modules in.
RECURSIVE InRegistryOrder(_, _)
InRegistryOrder(rows, order) ==
  IF order = <<>> THEN <<>>
  ELSE LET hit == {row \in rows : row.module_key = Head(order)} IN
       (IF hit = {} THEN <<>> ELSE <<CHOOSE row \in hit : TRUE>>)
         \o InRegistryOrder(rows, Tail(order))

\* Variant of SelectModules: the rows in registry order, not by module_key.
SelectModules_RegistryOrder(rows, e) ==
  InRegistryOrder({Project(row) : row \in TenantRows(rows, e)},
                  <<"core", "docs", "people", "track", "finance", "bizz",
                    "stock", "assets", "flow">>)

\* select("module_key, enabled, enabled_at, updated_at").eq("empresa_id", e).order(...)
SelectModules(rows, e) == OrderByKey({Project(row) : row \in TenantRows(rows, e)})


(***************************************************************************)
(* Initial state: the tables as provisioned, nothing seeded, no request.   *)
(***************************************************************************)
Init ==
  /\ profiles = InitProfiles
  /\ modules_enabled = {}
  /\ audit_log = <<>>
  /\ settings = {}
  /\ now = 0
  /\ req = [s \in Slots |-> Idle]
  /\ ops = 0
  /\ toggled = {}
  /\ docs = {}
  /\ pager = NoPager
  /\ auditLost = FALSE
  /\ guard = NoGuard
  /\ shell = NoShell
  /\ page = NoPage
  /\ completed = {}

\* A finished request's response is delivered before the next step is taken.
NoneDone == \A s \in Slots : req[s].pc # "done"

\* Requests are taken by the first free slot.
FreeSlot(s) ==
  /\ NoneDone
  /\ req[s].pc = "idle"
  /\ s = "s2" => req["s1"].pc # "idle"

\* The request as its handler gets it: header, session user, body.
Arrive(kind, u, h, k, en) ==
  [Idle EXCEPT !.kind = kind, !.userId = u, !.hdr = h, !.moduleKey = k, !.enabled = en]

Finish(r, resp) == [r EXCEPT !.pc = "done", !.resp = resp]

(***************************************************************************)
(* POST /api/admin/core/modules/toggle                                     *)
(***************************************************************************)
\* Variant of ToggleCheck: the handler leaves the core rule to the database.
ToggleCheck_NoCoreRule(r, claimedRole, lookupFails) ==
  IF r.hdr = NoHeader THEN Deny(400, "MISSING_EMPRESA_ID")
  ELSE IF r.userId = NoUser THEN Deny(401, "MISSING_SESSION")
  ELSE LET adminCheck == AssertAdmin(r.userId, r.hdr, claimedRole, lookupFails) IN
       IF ~adminCheck.ok THEN adminCheck
       ELSE IF r.moduleKey \notin VALID_MODULES
            THEN Deny(400, "INVALID_MODULE_KEY")
       ELSE adminCheck

\* The checks of POST up to the first write, in the order of the code.
\* Variant of ToggleCheck: the body is validated before the membership.
ToggleCheck_BodyFirst(r, claimedRole, lookupFails) ==
  IF r.hdr = NoHeader THEN Deny(400, "MISSING_EMPRESA_ID")
  ELSE IF r.userId = NoUser THEN Deny(401, "MISSING_SESSION")
  ELSE IF r.moduleKey \notin VALID_MODULES THEN Deny(400, "INVALID_MODULE_KEY")
  ELSE IF r.moduleKey = "core" /\ r.enabled = FALSE
       THEN Deny(400, "CORE_CANNOT_BE_DISABLED")
  ELSE AssertAdmin(r.userId, r.hdr, claimedRole, lookupFails)

ToggleCheck(r, claimedRole, lookupFails) ==
  IF r.hdr = NoHeader THEN Deny(400, "MISSING_EMPRESA_ID")
  ELSE IF r.userId = NoUser THEN Deny(401, "MISSING_SESSION")
  ELSE LET adminCheck == AssertAdmin(r.userId, r.hdr, claimedRole, lookupFails) IN
       IF ~adminCheck.ok THEN adminCheck
       ELSE IF r.moduleKey \notin VALID_MODULES
            THEN Deny(400, "INVALID_MODULE_KEY")
       ELSE IF r.moduleKey = "core" /\ r.enabled = FALSE
            THEN Deny(400, "CORE_CANNOT_BE_DISABLED")
       ELSE adminCheck

ToggleBegin(s) ==
  /\ FreeSlot(s)
  /\ \E u \in Users \cup {NoUser}, h \in Tenants \cup {NoHeader}, c \in ClaimedRoles,
        k \in BodyKeys, en \in BOOLEAN, lookupFails \in BOOLEAN :
       LET r == Arrive("toggle", u, h, k, en)
           check == ToggleCheck(r, c, lookupFails)
       IN req' = [req EXCEPT ![s] =
                    IF check.ok
                    THEN [r EXCEPT !.pc = "seed", !.empresaId = check.empresaId,
                                   !.profileId = check.profileId]
                    ELSE Finish(r, ErrResp(check.status, check.error))]
  /\ UNCHANGED <<profiles, modules_enabled, audit_log, settings, now, ops, toggled, docs, pager, auditLost, guard, shell, page, completed>>

\* admin.rpc("moduz_core_seed_modules", {p_empresa_id})
ToggleSeed(s) ==
  /\ NoneDone
  /\ req[s].kind = "toggle"
  /\ req[s].pc = "seed"
  /\ \E fault \in BOOLEAN :
       LET seeded == Seed(modules_enabled, req[s].empresaId, now) IN
       IF fault \/ seeded.err
       THEN /\ req' = [req EXCEPT ![s] =
                         Finish([@ EXCEPT !.fault = fault], ErrResp(500, "SEED_FAILED"))]
            /\ UNCHANGED modules_enabled
       ELSE /\ req' = [req EXCEPT ![s].pc = "upsert"]
            /\ modules_enabled' = seeded.rows
  /\ UNCHANGED <<profiles, audit_log, now, ops, toggled, settings, docs, pager, auditLost, guard, shell, page, completed>>

\* Variant of ToggleUpsert: the audit event is written before the upsert's
\* error is looked at.
ToggleUpsert_AuditsFirst(s) ==
  /\ NoneDone
  /\ req[s].kind = "toggle"
  /\ req[s].pc = "upsert"
  /\ \E fault \in BOOLEAN :
       LET patch == TogglePatch(req[s].empresaId, req[s].moduleKey, req[s].enabled, now)
           up == Upsert(modules_enabled, patch, now)
       IN IF fault \/ up.err
          THEN /\ req' = [req EXCEPT ![s] =
                            Finish([@ EXCEPT !.fault = fault], ErrResp(500, "DB_ERROR"))]
               /\ audit_log' = Append(audit_log,
                    [id |-> Len(audit_log) + 1, empresa_id |-> req[s].empresaId,
                     actor_user_id |-> req[s].userId,
                     actor_profile_id |-> req[s].profileId,
                     action |-> "MODULE_TOGGLED", entity |-> "modules_enabled",
                     payload |-> [module_key |-> req[s].moduleKey,
                                  enabled |-> req[s].enabled, patch |-> ""],
                     created_at |-> now])
               /\ UNCHANGED <<modules_enabled, toggled, settings>>
          ELSE /\ req' = [req EXCEPT ![s].pc = "audit", ![s].data = up.data]
               /\ modules_enabled' = up.rows
               /\ toggled' = toggled \cup {<<req[s].empresaId, req[s].moduleKey>>}
               /\ UNCHANGED audit_log
  /\ UNCHANGED <<profiles, now, ops, settings, docs, pager, auditLost, guard, shell, page, completed>>

\* admin.from("modules_enabled").upsert(patch, ...).select(...).single()
ToggleUpsert(s) ==
  /\ NoneDone
  /\ req[s].kind = "toggle"
  /\ req[s].pc = "upsert"
  /\ \E fault \in BOOLEAN :
       LET patch == TogglePatch(req[s].empresaId, req[s].moduleKey, req[s].enabled, now)
           up == Upsert(modules_enabled, patch, now)
       IN IF fault \/ up.err
          THEN /\ req' = [req EXCEPT ![s] =
                            Finish([@ EXCEPT !.fault = fault], ErrResp(500, "DB_ERROR"))]
               /\ UNCHANGED <<modules_enabled, toggled, settings>>
          ELSE /\ req' = [req EXCEPT ![s].pc = "audit", ![s].data = up.data]
               /\ modules_enabled' = up.rows
               /\ toggled' = toggled \cup {<<req[s].empresaId, req[s].moduleKey>>}
  /\ UNCHANGED <<profiles, audit_log, now, ops, settings, docs, pager, auditLost, guard, shell, page, completed>>

\* Variant of ToggleAuditRow: the event is attributed to the oldest
\* membership on record instead of the caller's.
ToggleAuditRow_WrongActor(r, id, t) ==
  LET first == CHOOSE p \in InitProfiles :
                 \A q \in InitProfiles : p.created_at <= q.created_at
  IN [id |-> id, empresa_id |-> r.empresaId, actor_user_id |-> first.user_id,
      actor_profile_id |-> first.id, action |-> "MODULE_TOGGLED",
      entity |-> "modules_enabled",
      payload |-> [module_key |-> r.moduleKey, enabled |-> r.enabled, patch |-> ""],
      created_at |-> t]

\* The audit_log row the toggle route inserts; id is the row's generated key.
ToggleAuditRow(r, id, t) ==
  [id |-> id, empresa_id |-> r.empresaId, actor_user_id |-> r.userId,
   actor_profile_id |-> r.profileId, action |-> "MODULE_TOGGLED",
   entity |-> "modules_enabled",
   payload |-> [module_key |-> r.moduleKey, enabled |-> r.enabled, patch |-> ""],
   created_at |-> t]

\* Variant of ToggleAudit: a failed audit insert fails the request.
ToggleAudit_Aborts(s) ==
  /\ NoneDone
  /\ req[s].kind = "toggle"
  /\ req[s].pc = "audit"
  /\ \E auditErr \in BOOLEAN :
       /\ auditLost' = (auditLost \/ auditErr)
       /\ audit_log' = IF auditErr THEN audit_log
                       ELSE Append(audit_log, ToggleAuditRow(req[s], Len(audit_log) + 1, now))
       /\ req' = [req EXCEPT ![s] =
                    IF auditErr
                    THEN Finish([@ EXCEPT !.fault = TRUE], ErrResp(500, "AUDIT_FAILED"))
                    ELSE Finish(@, [NoResp EXCEPT !.status = 200, !.module = req[s].data,
                                                   !.audit = "OK"])]
  /\ UNCHANGED <<profiles, modules_enabled, now, ops, toggled, settings, docs, pager, guard, shell, page, completed>>

\* admin.from("audit_log").insert(...), then the 200 response.
ToggleAudit(s) ==
  /\ NoneDone
  /\ req[s].kind = "toggle"
  /\ req[s].pc = "audit"
  /\ \E auditErr \in BOOLEAN :
       /\ auditLost' = (auditLost \/ auditErr)
       /\ audit_log' = IF auditErr THEN audit_log
                       ELSE Append(audit_log, ToggleAuditRow(req[s], Len(audit_log) + 1, now))
       /\ req' = [req EXCEPT ![s] =
                    Finish([@ EXCEPT !.fault = auditErr],
                           [NoResp EXCEPT !.status = 200, !.module = req[s].data,
                                          !.audit = IF auditErr THEN "FAILED" ELSE "OK"])]
  /\ UNCHANGED <<profiles, modules_enabled, now, ops, toggled, settings, docs, pager, guard, shell, page, completed>>

(***************************************************************************)
(* GET /api/admin/core/modules/list                                        *)
(***************************************************************************)
\* Variant of ListCheck: an active membership of any role is enough.
ListCheck_MemberOnly(r, claimedRole, lookupFails) ==
  IF r.hdr = NoHeader THEN Deny(400, "MISSING_EMPRESA_ID")
  ELSE IF r.userId = NoUser THEN Deny(401, "MISSING_SESSION")
  ELSE LET rows == ProfileRows(r.userId, r.hdr) IN
       IF lookupFails \/ Cardinality(rows) > 1 THEN Deny(500, "PROFILE_LOOKUP_FAILED")
       ELSE IF rows = {} \/ (\E p \in rows : p.ativo = FALSE) THEN Deny(403, "NO_PROFILE")
       ELSE Allow(r.hdr, (CHOOSE p \in rows : TRUE).id)

ListCheck(r, claimedRole, lookupFails) ==
  IF r.hdr = NoHeader THEN Deny(400, "MISSING_EMPRESA_ID")
  ELSE IF r.userId = NoUser THEN Deny(401, "MISSING_SESSION")
  ELSE AssertAdmin(r.userId, r.hdr, claimedRole, lookupFails)

ListBegin(s) ==
  /\ FreeSlot(s)
  /\ \E u \in Users \cup {NoUser}, h \in Tenants \cup {NoHeader}, c \in ClaimedRoles,
        lookupFails \in BOOLEAN :
       LET r == Arrive("list", u, h, "", FALSE)
           check == ListCheck(r, c, lookupFails)
       IN req' = [req EXCEPT ![s] =
                    IF check.ok
                    THEN [r EXCEPT !.pc = "seed", !.empresaId = check.empresaId,
                                   !.profileId = check.profileId]
                    ELSE Finish(r, ErrResp(check.status, check.error))]
  /\ UNCHANGED <<profiles, modules_enabled, audit_log, settings, now, ops, toggled, docs, pager, auditLost, guard, shell, page, completed>>

ListSeed(s) ==
  /\ NoneDone
  /\ req[s].kind \in {"list", "listfb"}
  /\ req[s].pc = "seed"
  /\ \E fault \in BOOLEAN :
       LET seeded == Seed(modules_enabled, req[s].empresaId, now) IN
       IF fault \/ seeded.err
       THEN /\ req' = [req EXCEPT ![s] =
                         Finish([@ EXCEPT !.fault = fault], ErrResp(500, "SEED_FAILED"))]
            /\ UNCHANGED modules_enabled
       ELSE /\ req' = [req EXCEPT ![s].pc = "select"]
            /\ modules_enabled' = seeded.rows
  /\ UNCHANGED <<profiles, audit_log, now, ops, toggled, settings, docs, pager, auditLost, guard, shell, page, completed>>

ListSelect(s) ==
  /\ NoneDone
  /\ req[s].kind \in {"list", "listfb"}
  /\ req[s].pc = "select"
  /\ \E fault \in BOOLEAN :
       req' = [req EXCEPT ![s] =
                 IF fault
                 THEN Finish([@ EXCEPT !.fault = TRUE], ErrResp(500, "DB_ERROR"))
                 ELSE Finish(@, [NoResp EXCEPT !.status = 200,
                                   !.modules = SelectModules(modules_enabled, req[s].empresaId)])]
  /\ UNCHANGED <<profiles, modules_enabled, audit_log, now, ops, toggled, settings, docs, pager, auditLost, guard, shell, page, completed>>

(***************************************************************************)
(* GET modules/list, v1.1: falls back to a tenant when the header is absent*)
(***************************************************************************)
\* resolveEmpresaIdFallback: the user's first active admin profile by created_at.
ResolveEmpresaIdFallback(userId, lookupFails) ==
  LET rows == {p \in profiles : p.user_id = userId /\ p.role = "admin" /\ p.ativo = TRUE}
  IN IF lookupFails \/ rows = {}
     THEN [found |-> FALSE, empresaId |-> NoHeader, profileId |-> ""]
     ELSE LET p == CHOOSE x \in rows : \A y \in rows : x.created_at <= y.created_at
          IN [found |-> TRUE, empresaId |-> p.empresa_id, profileId |-> p.id]

ListFbCheck(r, claimedRole, lookupFails) ==
  IF r.userId = NoUser THEN Deny(401, "MISSING_SESSION")
  ELSE IF r.hdr = NoHeader
       THEN LET fb == ResolveEmpresaIdFallback(r.userId, lookupFails) IN
            IF ~fb.found THEN Deny(400, "MISSING_EMPRESA_ID")
            ELSE Allow(fb.empresaId, fb.profileId)
       ELSE AssertAdmin(r.userId, r.hdr, claimedRole, lookupFails)

ListFbBegin(s) ==
  /\ FreeSlot(s)
  /\ \E u \in Users \cup {NoUser}, h \in Tenants \cup {NoHeader}, c \in ClaimedRoles,
        lookupFails \in BOOLEAN :
       LET r == Arrive("listfb", u, h, "", FALSE)
           check == ListFbCheck(r, c, lookupFails)
       IN req' = [req EXCEPT ![s] =
                    IF check.ok
                    THEN [r EXCEPT !.pc = "seed", !.empresaId = check.empresaId,
                                   !.profileId = check.profileId]
                    ELSE Finish(r, ErrResp(check.status, check.error))]
  /\ UNCHANGED <<profiles, modules_enabled, audit_log, settings, now, ops, toggled, docs, pager, auditLost, guard, shell, page, completed>>


(***************************************************************************)
(* GET /api/admin/core/audit/list                                          *)
(***************************************************************************)
AUDIT_LIMIT_DEFAULT == 50
NoCursor == -1

\* Variant of AuditListCheck: an active membership of any role is enough.
AuditListCheck_MemberOnly(r, claimedRole, lookupFails) ==
  IF r.hdr = NoHeader THEN Deny(400, "MISSING_EMPRESA_ID")
  ELSE IF r.userId = NoUser THEN Deny(401, "MISSING_SESSION")
  ELSE LET rows == ProfileRows(r.userId, r.hdr) IN
       IF lookupFails \/ Cardinality(rows) > 1 THEN Deny(500, "PROFILE_LOOKUP_FAILED")
       ELSE IF rows = {} \/ (\E p \in rows : p.ativo = FALSE) THEN Deny(403, "NO_PROFILE")
       ELSE Allow(r.hdr, (CHOOSE p \in rows : TRUE).id)

AuditListCheck(r, claimedRole, lookupFails) ==
  IF r.hdr = NoHeader THEN Deny(400, "MISSING_EMPRESA_ID")
  ELSE IF r.userId = NoUser THEN Deny(401, "MISSING_SESSION")
  ELSE AssertAdmin(r.userId, r.hdr, claimedRole, lookupFails)

AuditListBegin(s) ==
  /\ FreeSlot(s)
  /\ \E u \in Users \cup {NoUser}, h \in Tenants \cup {NoHeader}, c \in ClaimedRoles,
        lookupFails \in BOOLEAN :
       LET r == Arrive("auditlist", u, h, "", FALSE)
           check == AuditListCheck(r, c, lookupFails)
       IN req' = [req EXCEPT ![s] =
                    IF check.ok
                    THEN [r EXCEPT !.pc = "query", !.empresaId = check.empresaId,
                                   !.profileId = check.profileId]
                    ELSE Finish(r, ErrResp(check.status, check.error))]
  /\ UNCHANGED <<profiles, modules_enabled, audit_log, settings, now, ops, toggled, docs, pager, auditLost, guard, shell, page, completed>>

\* Variant of AuditMatches: the query has no tenant filter.
AuditMatches_AnyTenant(log, e, cursor) ==
  {i \in 1..Len(log) : cursor # NoCursor => log[i].created_at < cursor}

\* The rows .eq("empresa_id", e) [.lt("created_at", cursor)] selects.
AuditMatches(log, e, cursor) ==
  {i \in 1..Len(log) :
     /\ log[i].empresa_id = e
     /\ cursor # NoCursor => log[i].created_at < cursor}

\* The pages .order("created_at", {ascending: false}).limit(limit) can return:
\* rows of equal created_at come in any order.
AuditPages(log, e, limit, cursor) ==
  LET M == AuditMatches(log, e, cursor)
      n == IF Cardinality(M) < limit THEN Cardinality(M) ELSE limit
  IN { [j \in 1..n |-> log[f[j]]] :
         f \in { g \in [1..n -> M] :
                   /\ \A a, b \in 1..n : a < b =>
                        /\ g[a] # g[b]
                        /\ log[g[a]].created_at >= log[g[b]].created_at
                   /\ \A i \in M : (\A a \in 1..n : g[a] # i) =>
                        \A a \in 1..n : log[i].created_at <= log[g[a]].created_at } }

AuditListQuery(s) ==
  /\ NoneDone
  /\ req[s].kind = "auditlist"
  /\ req[s].pc = "query"
  /\ \E fault \in BOOLEAN :
       IF fault
       THEN req' = [req EXCEPT ![s] =
                      Finish([@ EXCEPT !.fault = TRUE], ErrResp(500, "DB_ERROR"))]
       ELSE \E rows \in AuditPages(audit_log, req[s].empresaId, AUDIT_LIMIT_DEFAULT, NoCursor) :
              req' = [req EXCEPT ![s] =
                        Finish(@, [NoResp EXCEPT !.status = 200, !.items = rows])]
  /\ UNCHANGED <<profiles, modules_enabled, audit_log, settings, now, ops, toggled, docs, pager, auditLost, guard, shell, page, completed>>

(***************************************************************************)
(* The audit page of the admin console (app/adm/core/auditoria/page.tsx)   *)
(* over GET /api/admin/core/audit/list?limit=&cursor=                      *)
(***************************************************************************)
AUDIT_LIMIT_MIN == 1
AUDIT_LIMIT_MAX == 200

\* The limit query parameter: absent, or a number.
LimitParams == {<<>>} \cup {<<n>> : n \in 0..MaxLimit}

\* clampInt(v, min, max, def)
ClampInt(v, min, max, def) ==
  IF v = <<>> THEN def
  ELSE LET n == v[1]
           capped == IF n > max THEN max ELSE n
       IN IF capped < min THEN min ELSE capped

\* Variant of NextCursorOf: a page shorter than two rows ends the paging.
NextCursorOf_EndsEarly(rows) ==
  IF Len(rows) < 2 THEN NoCursor ELSE rows[Len(rows)].created_at

\* next_cursor: the created_at of the last row of the page, null for no rows.
NextCursorOf(rows) ==
  IF Len(rows) = 0 THEN NoCursor ELSE rows[Len(rows)].created_at

\* The 200 responses of GET for an admitted caller: {items, next_cursor}.
AuditListResponses(log, e, limitParam, cursor) ==
  LET limit == ClampInt(limitParam, AUDIT_LIMIT_MIN, AUDIT_LIMIT_MAX, AUDIT_LIMIT_DEFAULT)
  IN { [items |-> rows, next_cursor |-> NextCursorOf(rows)] :
         rows \in AuditPages(log, e, limit, cursor) }

\* load(true): the first page replaces what the page shows.
PagerLoad ==
  /\ pager.pc = "closed"
  /\ \E u \in Users, eid \in Tenants \cup {NoHeader}, limitParam \in LimitParams,
        fault \in BOOLEAN :
       LET r == Arrive("auditlist", u, eid, "", FALSE)
           check == AuditListCheck(r, "", FALSE)
       IN IF eid = NoHeader
          THEN pager' = [NoPager EXCEPT !.pc = "open", !.err = "NO_EMPRESA"]
          ELSE IF ~check.ok
          THEN pager' = [NoPager EXCEPT !.pc = "open", !.empresaId = eid,
                                        !.err = check.error]
          ELSE IF fault
          THEN pager' = [NoPager EXCEPT !.pc = "open", !.empresaId = eid,
                                        !.err = "DB_ERROR"]
          ELSE \E j \in AuditListResponses(audit_log, eid, limitParam, NoCursor) :
                 pager' = [NoPager EXCEPT !.pc = "open", !.empresaId = eid,
                                          !.limit = limitParam, !.items = j.items,
                                          !.nextCursor = j.next_cursor]
  /\ UNCHANGED <<profiles, modules_enabled, audit_log, settings, now, req, ops, toggled, docs, auditLost, guard, shell, page, completed>>

\* loadMore(): the next page is appended to what the page shows.
PagerLoadMore ==
  /\ pager.pc = "open"
  /\ pager.empresaId # NoHeader
  /\ pager.nextCursor # NoCursor
  /\ \E fault \in BOOLEAN :
       IF fault
       THEN pager' = [pager EXCEPT !.toast = "DB_ERROR"]
       ELSE \E j \in AuditListResponses(audit_log, pager.empresaId, pager.limit,
                                        pager.nextCursor) :
              pager' = [pager EXCEPT !.items = pager.items \o j.items,
                                     !.nextCursor = j.next_cursor, !.toast = ""]
  /\ UNCHANGED <<profiles, modules_enabled, audit_log, settings, now, req, ops, toggled, docs, auditLost, guard, shell, page, completed>>

\* An event of tenant e written at time t by an admin's toggle.
StoredEvent(e, id, t) ==
  LET admin == CHOOSE p \in InitProfiles :
                 p.empresa_id = e /\ p.role = "admin" /\ p.ativo = TRUE
                 /\ \A q \in InitProfiles :
                      (q.empresa_id = e /\ q.role = "admin" /\ q.ativo = TRUE)
                      => p.created_at <= q.created_at
  IN ToggleAuditRow([Arrive("toggle", admin.user_id, e, "docs", FALSE) EXCEPT
                       !.empresaId = e, !.profileId = admin.id],
                    id, t)

\* The logs of up to MaxEvents events, in insertion order, that the writers
\* can have left: created_at never decreases along the log.
StoredLogs ==
  UNION { { [i \in 1..n |-> StoredEvent(es[i], i, ts[i])] :
              es \in [1..n -> Tenants],
              ts \in { f \in [1..n -> 0..MaxClock] :
                         \A a, b \in 1..n : a < b => f[a] <= f[b] } } :
          n \in 0..MaxEvents }

InitAudit ==
  /\ profiles = InitProfiles
  /\ modules_enabled = {}
  /\ audit_log \in StoredLogs
  /\ settings = {}
  /\ now = MaxClock
  /\ req = [s \in Slots |-> Idle]
  /\ ops = 0
  /\ toggled = {}
  /\ docs = {}
  /\ pager = NoPager
  /\ auditLost = FALSE
  /\ guard = NoGuard
  /\ shell = NoShell
  /\ page = NoPage
  /\ completed = {}

NextAudit ==
  \/ PagerLoad
  \/ PagerLoadMore

\* The audit page is opened on a stored log and pages through it; nothing
\* writes to the log meanwhile.
SpecAudit == InitAudit /\ [][NextAudit]_vars

\* A loadMore() whose request is answered with a page.
PagerNextPage ==
  /\ pager.pc = "open"
  /\ pager.empresaId # NoHeader
  /\ pager.nextCursor # NoCursor
  /\ \E j \in AuditListResponses(audit_log, pager.empresaId, pager.limit,
                                 pager.nextCursor) :
       pager' = [pager EXCEPT !.items = pager.items \o j.items,
                              !.nextCursor = j.next_cursor, !.toast = ""]
  /\ UNCHANGED <<profiles, modules_enabled, audit_log, settings, now, req, ops, toggled, docs, auditLost, guard, shell, page, completed>>

\* The audit page of a client that keeps asking for the next page while it
\* holds a cursor: a request that is sent again and again is answered with a
\* page sooner or later.
SpecAuditFair == InitAudit /\ [][NextAudit]_vars /\ WF_vars(PagerNextPage)

(***************************************************************************)
(* POST /api/admin/core/settings/update                                    *)
(***************************************************************************)
\* body.timezone values: "" normalises to null (no change).
SettingsBodies == {"", "UTC"}

SettingsCheck(r, claimedRole, lookupFails) ==
  IF r.hdr = NoHeader THEN Deny(400, "MISSING_EMPRESA_ID")
  ELSE IF r.userId = NoUser THEN Deny(401, "MISSING_SESSION")
  ELSE LET adminCheck == AssertAdmin(r.userId, r.hdr, claimedRole, lookupFails) IN
       IF ~adminCheck.ok THEN adminCheck
       ELSE IF r.patch = "" THEN Deny(400, "NO_CHANGES")
       ELSE adminCheck

SettingsBegin(s) ==
  /\ FreeSlot(s)
  /\ \E u \in Users \cup {NoUser}, h \in Tenants \cup {NoHeader}, c \in ClaimedRoles,
        tz \in SettingsBodies, lookupFails \in BOOLEAN :
       LET r == [Arrive("settings", u, h, "", FALSE) EXCEPT !.patch = tz]
           check == SettingsCheck(r, c, lookupFails)
       IN req' = [req EXCEPT ![s] =
                    IF check.ok
                    THEN [r EXCEPT !.pc = "sel", !.empresaId = check.empresaId,
                                   !.profileId = check.profileId]
                    ELSE Finish(r, ErrResp(check.status, check.error))]
  /\ UNCHANGED <<profiles, modules_enabled, audit_log, settings, now, ops, toggled, docs, pager, auditLost, guard, shell, page, completed>>

SettingsRows(e) == {row \in settings : row.empresa_id = e}

\* select("id, empresa_id").eq("empresa_id", e).maybeSingle()
SettingsSelect(s) ==
  /\ NoneDone
  /\ req[s].kind = "settings"
  /\ req[s].pc = "sel"
  /\ \E fault \in BOOLEAN :
       req' = [req EXCEPT ![s] =
                 IF fault \/ Cardinality(SettingsRows(req[s].empresaId)) > 1
                 THEN Finish([@ EXCEPT !.fault = fault], ErrResp(500, "DB_ERROR"))
                 ELSE [@ EXCEPT !.pc = IF SettingsRows(req[s].empresaId) = {}
                                       THEN "ins" ELSE "upd"]]
  /\ UNCHANGED <<profiles, modules_enabled, audit_log, settings, now, ops, toggled, docs, pager, auditLost, guard, shell, page, completed>>

\* insert({empresa_id, timezone: "Europe/Lisbon", ...}) under settings_empresa_unique
SettingsInsert(s) ==
  /\ NoneDone
  /\ req[s].kind = "settings"
  /\ req[s].pc = "ins"
  /\ \E fault \in BOOLEAN :
       IF fault \/ SettingsRows(req[s].empresaId) # {}
       THEN /\ req' = [req EXCEPT ![s] =
                         Finish([@ EXCEPT !.fault = fault], ErrResp(500, "DB_ERROR"))]
            /\ UNCHANGED settings
       ELSE /\ req' = [req EXCEPT ![s].pc = "upd"]
            /\ settings' = settings \cup
                 {[empresa_id |-> req[s].empresaId, timezone |-> "Europe/Lisbon"]}
  /\ UNCHANGED <<profiles, modules_enabled, audit_log, now, ops, toggled, docs, pager, auditLost, guard, shell, page, completed>>

\* update(patch).eq("empresa_id", e).select(...).single()
SettingsUpdate(s) ==
  /\ NoneDone
  /\ req[s].kind = "settings"
  /\ req[s].pc = "upd"
  /\ \E fault \in BOOLEAN :
       IF fault \/ Cardinality(SettingsRows(req[s].empresaId)) # 1
       THEN /\ req' = [req EXCEPT ![s] =
                         Finish([@ EXCEPT !.fault = fault], ErrResp(500, "DB_ERROR"))]
            /\ UNCHANGED settings
       ELSE /\ req' = [req EXCEPT ![s].pc = "saudit"]
            /\ settings' = (settings \ SettingsRows(req[s].empresaId)) \cup
                 {[empresa_id |-> req[s].empresaId, timezone |-> req[s].patch]}
  /\ UNCHANGED <<profiles, modules_enabled, audit_log, now, ops, toggled, docs, pager, auditLost, guard, shell, page, completed>>

SettingsAuditRow(r, id, t) ==
  [id |-> id, empresa_id |-> r.empresaId, actor_user_id |-> r.userId,
   actor_profile_id |-> r.profileId, action |-> "SETTINGS_UPDATED",
   entity |-> "settings",
   payload |-> [module_key |-> "", enabled |-> FALSE, patch |-> r.patch],
   created_at |-> t]

SettingsAudit(s) ==
  /\ NoneDone
  /\ req[s].kind = "settings"
  /\ req[s].pc = "saudit"
  /\ \E auditErr \in BOOLEAN :
       /\ auditLost' = (auditLost \/ auditErr)
       /\ audit_log' = IF auditErr THEN audit_log
                       ELSE Append(audit_log, SettingsAuditRow(req[s], Len(audit_log) + 1, now))
       /\ req' = [req EXCEPT ![s] =
                    Finish([@ EXCEPT !.fault = auditErr],
                           [NoResp EXCEPT !.status = 200,
                                          !.audit = IF auditErr THEN "FAILED" ELSE "OK"])]
  /\ UNCHANGED <<profiles, modules_enabled, settings, now, ops, toggled, docs, pager, guard, shell, page, completed>>

(***************************************************************************)
(* POST /api/admin/docs/create (v1.1 and v1), POST /api/admin/docs/complete *)
(***************************************************************************)
\* body.filename values: absent, blank, and a name with a path in it.
DocNames == {"", " ", "x/a.pdf"}

\* safeName of create v1.1: slashes become dashes, blanks are trimmed.
SafeName(name) ==
  CASE name = "" -> "file"
    [] name = " " -> ""
    [] name = "x/a.pdf" -> "x-a.pdf"

\* safeFileName of create v1: the last path segment of the trimmed name.
SafeFileName(name) ==
  CASE name = "" -> "documento"
    [] name = " " -> ""
    [] name = "x/a.pdf" -> "a.pdf"

\* `empresa/${empresaId}/${docId}/${filename}`
StoragePath(empresaId, docId, filename) == <<"empresa", empresaId, docId, filename>>

\* Variant of AssertMember: the ativo flag is not read.
AssertMember_IgnoresAtivo(userId, empresaId, lookupFails) ==
  LET rows == ProfileRows(userId, empresaId) IN
  IF lookupFails \/ Cardinality(rows) > 1 THEN Deny(500, "PROFILE_LOOKUP_FAILED")
  ELSE IF rows = {} THEN Deny(403, "NO_PROFILE")
  ELSE Allow(empresaId, (CHOOSE p \in rows : TRUE).id)

\* assertMember of the docs routes: an active membership, whatever its role.
AssertMember(userId, empresaId, lookupFails) ==
  LET rows == ProfileRows(userId, empresaId) IN
  IF lookupFails \/ Cardinality(rows) > 1 THEN Deny(500, "PROFILE_LOOKUP_FAILED")
  ELSE IF rows = {} THEN Deny(403, "NO_PROFILE")
  ELSE LET profile == CHOOSE p \in rows : TRUE IN
       IF profile.ativo = FALSE THEN Deny(403, "NO_PROFILE")
       ELSE Allow(empresaId, profile.id)

\* gen_random_uuid() and crypto.randomUUID(): an id no row has.
FreshDocId == Cardinality(docs) + 1

DocRows(e, id) == {d \in docs : d.id = id /\ d.empresa_id = e}

\* update docs set status = 'failed' where id = ... : its result is not read.
MarkFailed(e, id, failed) ==
  IF failed THEN docs
  ELSE (docs \ DocRows(e, id)) \cup {[d EXCEPT !.status = "failed"] : d \in DocRows(e, id)}

DocAuditRow(r, action, id, t) ==
  [id |-> id, empresa_id |-> r.empresaId, actor_user_id |-> r.userId,
   actor_profile_id |-> r.profileId, action |-> action, entity |-> "docs",
   payload |-> [doc_id |-> r.docId, filename |-> r.patch],
   created_at |-> t]

\* Create v1.1: header, session, assertAdmin, body.
DocsCreate11Check(r, claimedRole, lookupFails) ==
  IF r.hdr = NoHeader THEN Deny(400, "MISSING_EMPRESA_ID")
  ELSE IF r.userId = NoUser THEN Deny(401, "MISSING_SESSION")
  ELSE LET adminCheck == AssertAdmin(r.userId, r.hdr, claimedRole, lookupFails) IN
       IF ~adminCheck.ok THEN adminCheck
       ELSE IF r.patch = "" THEN Deny(400, "MISSING_FILENAME")
       ELSE adminCheck

DocsCreate11Begin(s) ==
  /\ FreeSlot(s)
  /\ \E u \in Users \cup {NoUser}, h \in Tenants \cup {NoHeader}, c \in ClaimedRoles,
        name \in DocNames, lookupFails \in BOOLEAN :
       LET r == [Arrive("doccreate11", u, h, "", FALSE) EXCEPT !.patch = SafeName(name)]
           check == DocsCreate11Check(r, c, lookupFails)
       IN req' = [req EXCEPT ![s] =
                    IF check.ok
                    THEN [r EXCEPT !.pc = "dins", !.empresaId = check.empresaId,
                                   !.profileId = check.profileId]
                    ELSE Finish([r EXCEPT !.fault = lookupFails],
                                ErrResp(check.status, check.error))]
  /\ UNCHANGED <<profiles, modules_enabled, audit_log, settings, now, ops, toggled, docs, pager, auditLost, guard, shell, page, completed>>

\* 1) insert the doc as pending, storage_path "tmp".
DocsCreate11Insert(s) ==
  /\ NoneDone
  /\ req[s].kind = "doccreate11"
  /\ req[s].pc = "dins"
  /\ \E fault \in BOOLEAN :
       IF fault
       THEN /\ req' = [req EXCEPT ![s] =
                         Finish([@ EXCEPT !.fault = TRUE], ErrResp(500, "DOC_CREATE_FAILED"))]
            /\ UNCHANGED docs
       ELSE /\ docs' = docs \cup
                 {[id |-> FreshDocId, empresa_id |-> req[s].empresaId,
                   storage_path |-> <<"tmp">>, filename |-> req[s].patch,
                   created_by |-> req[s].userId, status |-> "pending"]}
            /\ req' = [req EXCEPT ![s].pc = "dpath", ![s].docId = FreshDocId]
  /\ UNCHANGED <<profiles, modules_enabled, audit_log, settings, now, ops, toggled, pager, auditLost, guard, shell, page, completed>>

\* 2) update storage_path; on error the doc is marked failed.
DocsCreate11Path(s) ==
  /\ NoneDone
  /\ req[s].kind = "doccreate11"
  /\ req[s].pc = "dpath"
  /\ \E fault \in BOOLEAN, markFails \in BOOLEAN :
       IF fault
       THEN /\ docs' = MarkFailed(req[s].empresaId, req[s].docId, markFails)
            /\ req' = [req EXCEPT ![s] =
                         Finish([@ EXCEPT !.fault = TRUE],
                                ErrResp(500, "DOC_PATH_UPDATE_FAILED"))]
       ELSE /\ ~markFails
            /\ docs' = (docs \ DocRows(req[s].empresaId, req[s].docId)) \cup
                 {[d EXCEPT !.storage_path =
                      StoragePath(req[s].empresaId, req[s].docId, req[s].patch)] :
                    d \in DocRows(req[s].empresaId, req[s].docId)}
            /\ req' = [req EXCEPT ![s].pc = "dsign"]
  /\ UNCHANGED <<profiles, modules_enabled, audit_log, settings, now, ops, toggled, pager, auditLost, guard, shell, page, completed>>

\* 3) createSignedUploadUrl; on error the doc is marked failed.
DocsCreate11Sign(s) ==
  /\ NoneDone
  /\ req[s].kind = "doccreate11"
  /\ req[s].pc = "dsign"
  /\ \E fault \in BOOLEAN, markFails \in BOOLEAN :
       IF fault
       THEN /\ docs' = MarkFailed(req[s].empresaId, req[s].docId, markFails)
            /\ req' = [req EXCEPT ![s] =
                         Finish([@ EXCEPT !.fault = TRUE], ErrResp(500, "SIGNED_URL_FAILED"))]
       ELSE /\ ~markFails
            /\ UNCHANGED docs
            /\ req' = [req EXCEPT ![s].pc = "daudit"]
  /\ UNCHANGED <<profiles, modules_enabled, audit_log, settings, now, ops, toggled, pager, auditLost, guard, shell, page, completed>>

\* await admin.from("audit_log").insert({...}).catch(() => null), then the 200
\* response. Whether the query builder has a catch method depends on the
\* client library's version: without one the call throws before any insert
\* is sent and the outer catch answers 500 UNEXPECTED.
DocsCreate11Audit(s) ==
  /\ NoneDone
  /\ req[s].kind = "doccreate11"
  /\ req[s].pc = "daudit"
  /\ \E builderHasCatch \in BOOLEAN, auditErr \in BOOLEAN :
       IF ~builderHasCatch
       THEN /\ ~auditErr
            /\ UNCHANGED <<audit_log, auditLost>>
            /\ req' = [req EXCEPT ![s] = Finish(@, ErrResp(500, "UNEXPECTED"))]
       ELSE /\ auditLost' = (auditLost \/ auditErr)
            /\ audit_log' = IF auditErr THEN audit_log
                            ELSE Append(audit_log,
                                   DocAuditRow(req[s], "DOC_CREATED", Len(audit_log) + 1, now))
            /\ req' = [req EXCEPT ![s] =
                         Finish([@ EXCEPT !.fault = auditErr],
                                [NoResp EXCEPT !.status = 200, !.doc = req[s].docId])]
  /\ UNCHANGED <<profiles, modules_enabled, settings, now, ops, toggled, docs, pager, guard, shell, page, completed>>

\* Create v1: header, session, assertMember.
DocsCreateCheck(r, lookupFails) ==
  IF r.hdr = NoHeader THEN Deny(400, "MISSING_EMPRESA_ID")
  ELSE IF r.userId = NoUser THEN Deny(401, "MISSING_SESSION")
  ELSE AssertMember(r.userId, r.hdr, lookupFails)

DocsCreateBegin(s) ==
  /\ FreeSlot(s)
  /\ \E u \in Users \cup {NoUser}, h \in Tenants \cup {NoHeader},
        name \in DocNames, lookupFails \in BOOLEAN :
       LET r == [Arrive("doccreate", u, h, "", FALSE) EXCEPT !.patch = SafeFileName(name)]
           check == DocsCreateCheck(r, lookupFails)
       IN req' = [req EXCEPT ![s] =
                    IF check.ok
                    THEN [r EXCEPT !.pc = "dins", !.empresaId = check.empresaId,
                                   !.profileId = check.profileId]
                    ELSE Finish([r EXCEPT !.fault = lookupFails],
                                ErrResp(check.status, check.error))]
  /\ UNCHANGED <<profiles, modules_enabled, audit_log, settings, now, ops, toggled, docs, pager, auditLost, guard, shell, page, completed>>

\* insert the doc under an id the handler generates, with its final path.
DocsCreateInsert(s) ==
  /\ NoneDone
  /\ req[s].kind = "doccreate"
  /\ req[s].pc = "dins"
  /\ \E fault \in BOOLEAN :
       IF fault
       THEN /\ req' = [req EXCEPT ![s] =
                         Finish([@ EXCEPT !.fault = TRUE], ErrResp(500, "DB_ERROR"))]
            /\ UNCHANGED docs
       ELSE /\ docs' = docs \cup
                 {[id |-> FreshDocId, empresa_id |-> req[s].empresaId,
                   storage_path |-> StoragePath(req[s].empresaId, FreshDocId, req[s].patch),
                   filename |-> req[s].patch,
                   created_by |-> req[s].userId, status |-> ""]}
            /\ req' = [req EXCEPT ![s].pc = "daudit", ![s].docId = FreshDocId]
  /\ UNCHANGED <<profiles, modules_enabled, audit_log, settings, now, ops, toggled, pager, auditLost, guard, shell, page, completed>>

\* const { error: auditErr } = await ...insert(...); void auditErr
DocsCreateAudit(s) ==
  /\ NoneDone
  /\ req[s].kind = "doccreate"
  /\ req[s].pc = "daudit"
  /\ \E auditErr \in BOOLEAN :
       /\ auditLost' = (auditLost \/ auditErr)
       /\ audit_log' = IF auditErr THEN audit_log
                       ELSE Append(audit_log,
                              DocAuditRow(req[s], "DOC_CREATED", Len(audit_log) + 1, now))
       /\ req' = [req EXCEPT ![s].pc = "dsign", ![s].fault = auditErr]
  /\ UNCHANGED <<profiles, modules_enabled, settings, now, ops, toggled, docs, pager, guard, shell, page, completed>>

\* createSignedUploadUrl, then the 200 response.
DocsCreateSign(s) ==
  /\ NoneDone
  /\ req[s].kind = "doccreate"
  /\ req[s].pc = "dsign"
  /\ \E fault \in BOOLEAN :
       req' = [req EXCEPT ![s] =
                 IF fault
                 THEN Finish(@, ErrResp(500, "SIGNED_UPLOAD_FAILED"))
                 ELSE Finish(@, [NoResp EXCEPT !.status = 200, !.doc = req[s].docId])]
  /\ UNCHANGED <<profiles, modules_enabled, audit_log, settings, now, ops, toggled, docs, pager, auditLost, guard, shell, page, completed>>

\* Complete: header, session, assertMember, body.doc_id.
DocsCompleteCheck(r, lookupFails) ==
  IF r.hdr = NoHeader THEN Deny(400, "MISSING_EMPRESA_ID")
  ELSE IF r.userId = NoUser THEN Deny(401, "MISSING_SESSION")
  ELSE LET member == AssertMember(r.userId, r.hdr, lookupFails) IN
       IF ~member.ok THEN member
       ELSE IF r.docId = 0 THEN Deny(400, "MISSING_DOC_ID")
       ELSE member

DocsCompleteBegin(s) ==
  /\ FreeSlot(s)
  /\ \E u \in Users \cup {NoUser}, h \in Tenants \cup {NoHeader},
        id \in 0..FreshDocId, lookupFails \in BOOLEAN :
       LET r == [Arrive("doccomplete", u, h, "", FALSE) EXCEPT !.docId = id]
           check == DocsCompleteCheck(r, lookupFails)
       IN req' = [req EXCEPT ![s] =
                    IF check.ok
                    THEN [r EXCEPT !.pc = "dupd", !.empresaId = check.empresaId,
                                   !.profileId = check.profileId]
                    ELSE Finish([r EXCEPT !.fault = lookupFails],
                                ErrResp(check.status, check.error))]
  /\ UNCHANGED <<profiles, modules_enabled, audit_log, settings, now, ops, toggled, docs, pager, auditLost, guard, shell, page, completed>>

\* update docs set created_by = ... where id and empresa_id match.
DocsCompleteUpdate(s) ==
  /\ NoneDone
  /\ req[s].kind = "doccomplete"
  /\ req[s].pc = "dupd"
  /\ \E fault \in BOOLEAN :
       IF fault \/ DocRows(req[s].empresaId, req[s].docId) = {}
       THEN /\ req' = [req EXCEPT ![s] =
                         Finish([@ EXCEPT !.fault = fault],
                                ErrResp(404, "DOC_NOT_FOUND_OR_DB_ERROR"))]
            /\ UNCHANGED docs
       ELSE /\ docs' = (docs \ DocRows(req[s].empresaId, req[s].docId)) \cup
                 {[d EXCEPT !.created_by = req[s].userId] :
                    d \in DocRows(req[s].empresaId, req[s].docId)}
            /\ req' = [req EXCEPT ![s].pc = "daudit"]
  /\ UNCHANGED <<profiles, modules_enabled, audit_log, settings, now, ops, toggled, pager, auditLost, guard, shell, page, completed>>

\* Variant of DocsCompleteAudit: the document's DOC_CREATED event is turned
\* into its DOC_UPLOADED event where there is one.
DocsCompleteAudit_Rewrites(s) ==
  /\ NoneDone
  /\ req[s].kind = "doccomplete"
  /\ req[s].pc = "daudit"
  /\ \E auditErr \in BOOLEAN :
       /\ auditLost' = (auditLost \/ auditErr)
       /\ audit_log' =
            IF auditErr THEN audit_log
            ELSE IF \E i \in 1..Len(audit_log) :
                      /\ audit_log[i].action = "DOC_CREATED"
                      /\ audit_log[i].payload.doc_id = req[s].docId
                 THEN [i \in 1..Len(audit_log) |->
                         IF /\ audit_log[i].action = "DOC_CREATED"
                            /\ audit_log[i].payload.doc_id = req[s].docId
                         THEN DocAuditRow(req[s], "DOC_UPLOADED", i, now)
                         ELSE audit_log[i]]
                 ELSE Append(audit_log,
                        DocAuditRow(req[s], "DOC_UPLOADED", Len(audit_log) + 1, now))
       /\ req' = [req EXCEPT ![s] =
                    Finish([@ EXCEPT !.fault = auditErr],
                           [NoResp EXCEPT !.status = 200, !.doc = req[s].docId,
                                          !.audit = IF auditErr THEN "FAILED" ELSE "OK"])]
       /\ completed' = completed \cup {req[s].docId}
  /\ UNCHANGED <<profiles, modules_enabled, settings, now, ops, toggled, docs, pager, guard, shell, page>>

DocsCompleteAudit(s) ==
  /\ NoneDone
  /\ req[s].kind = "doccomplete"
  /\ req[s].pc = "daudit"
  /\ \E auditErr \in BOOLEAN :
       /\ auditLost' = (auditLost \/ auditErr)
       /\ audit_log' = IF auditErr THEN audit_log
                       ELSE Append(audit_log,
                              DocAuditRow(req[s], "DOC_UPLOADED", Len(audit_log) + 1, now))
       /\ req' = [req EXCEPT ![s] =
                    Finish([@ EXCEPT !.fault = auditErr],
                           [NoResp EXCEPT !.status = 200, !.doc = req[s].docId,
                                          !.audit = IF auditErr THEN "FAILED" ELSE "OK"])]
       /\ completed' = completed \cup {req[s].docId}
  /\ UNCHANGED <<profiles, modules_enabled, settings, now, ops, toggled, docs, pager, guard, shell, page>>

(***************************************************************************)
(* GET /api/admin/core/context                                             *)
(***************************************************************************)
\* JSON null.
Null == "null"

\* Users with a session: those of Users, and one who has no membership.
Principals == Users \cup {"u4"}

\* public.empresas.nome
Nome(e) == <<"Empresa", e>>

\* .eq("user_id", u).order("created_at", {ascending: true}): the rows in
\* ascending created_at, rows of equal created_at in any order.
ProfilesOfUser(u) ==
  LET rows == {p \in profiles : p.user_id = u}
      n == Cardinality(rows)
  IN { f \in [1..n -> rows] :
         \A a, b \in 1..n : a < b => (f[a] # f[b] /\ f[a].created_at <= f[b].created_at) }

IsActive(p) == p.ativo # FALSE

\* Variant of ActiveProfiles: inactive memberships are listed too.
ActiveProfiles_All(rows) == rows

\* (profiles ?? []).filter((p) => p.ativo !== false)
ActiveProfiles(rows) == SelectSeq(rows, IsActive)

\* activeProfiles.map(...) with the names found, null where none was.
EmpresasOut(active, namesFail) ==
  [i \in 1..Len(active) |->
     [empresa_id |-> active[i].empresa_id,
      nome |-> IF namesFail THEN <<Null>> ELSE Nome(active[i].empresa_id),
      role |-> active[i].role,
      ativo |-> active[i].ativo]]

\* empresasOut.find((x) => x.ativo)?.empresa_id ?? empresasOut[0]?.empresa_id ?? null
DefaultEmpresaId(empresasOut) ==
  LET listed == {i \in 1..Len(empresasOut) : empresasOut[i].ativo} IN
  IF listed # {}
  THEN empresasOut[CHOOSE i \in listed : \A j \in listed : i <= j].empresa_id
  ELSE IF Len(empresasOut) > 0 THEN empresasOut[1].empresa_id
  ELSE Null

\* Variant of ContextGet: a user with no active membership is an error.
ContextGet_EmptyIsError(s) ==
  /\ FreeSlot(s)
  /\ \E u \in Principals \cup {NoUser}, lookupFails \in BOOLEAN, namesFail \in BOOLEAN :
       LET r == Arrive("context", u, NoHeader, "", FALSE) IN
       IF u = NoUser
       THEN /\ ~lookupFails /\ ~namesFail
            /\ req' = [req EXCEPT ![s] = Finish(r, ErrResp(401, "MISSING_SESSION"))]
       ELSE IF lookupFails
       THEN /\ ~namesFail
            /\ req' = [req EXCEPT ![s] =
                         Finish([r EXCEPT !.fault = TRUE],
                                ErrResp(500, "PROFILES_LOOKUP_FAILED"))]
       ELSE \E rows \in ProfilesOfUser(u) :
              LET active == ActiveProfiles(rows)
                  empresasOut == EmpresasOut(active, namesFail)
              IN /\ namesFail => Len(active) > 0
                 /\ req' = [req EXCEPT ![s] =
                      IF Len(active) = 0
                      THEN Finish(r, ErrResp(500, "PROFILES_LOOKUP_FAILED"))
                      ELSE Finish(r, [NoResp EXCEPT
                             !.status = 200,
                             !.empresas = empresasOut,
                             !.default_empresa_id = DefaultEmpresaId(empresasOut),
                             !.profile = active[1].id])]
  /\ UNCHANGED <<profiles, modules_enabled, audit_log, settings, now, ops, toggled, docs, pager, auditLost, guard, shell, page, completed>>

\* The whole handler: getUser, the profiles of the user, the names of their
\* tenants (an error of that lookup is ignored), the 200 response.
ContextGet(s) ==
  /\ FreeSlot(s)
  /\ \E u \in Principals \cup {NoUser}, lookupFails \in BOOLEAN, namesFail \in BOOLEAN :
       LET r == Arrive("context", u, NoHeader, "", FALSE) IN
       IF u = NoUser
       THEN /\ ~lookupFails /\ ~namesFail
            /\ req' = [req EXCEPT ![s] = Finish(r, ErrResp(401, "MISSING_SESSION"))]
       ELSE IF lookupFails
       THEN /\ ~namesFail
            /\ req' = [req EXCEPT ![s] =
                         Finish([r EXCEPT !.fault = TRUE],
                                ErrResp(500, "PROFILES_LOOKUP_FAILED"))]
       ELSE \E rows \in ProfilesOfUser(u) :
              LET active == ActiveProfiles(rows)
                  empresasOut == EmpresasOut(active, namesFail)
              IN /\ namesFail => Len(active) > 0
                 /\ req' = [req EXCEPT ![s] =
                      Finish(r, [NoResp EXCEPT
                        !.status = 200,
                        !.empresas = empresasOut,
                        !.default_empresa_id = DefaultEmpresaId(empresasOut),
                        !.profile = IF Len(active) > 0 THEN active[1].id ELSE Null])]
  /\ UNCHANGED <<profiles, modules_enabled, audit_log, settings, now, ops, toggled, docs, pager, auditLost, guard, shell, page, completed>>

(***************************************************************************)
(* Environment: response delivery, the clock, membership administration.   *)
(***************************************************************************)
\* The response is delivered and the connection is closed.
Release(s) ==
  /\ req[s].pc = "done"
  /\ req' = [req EXCEPT ![s] = [Idle EXCEPT !.pc = "closed"]]
  /\ UNCHANGED <<profiles, modules_enabled, audit_log, settings, now, ops, toggled, docs, pager, auditLost, guard, shell, page, completed>>

\* The response is delivered and the client will send another request.
KeepAlive(s) ==
  /\ req[s].pc = "done"
  /\ ops < MaxOps
  /\ req' = [req EXCEPT ![s] = Idle]
  /\ ops' = ops + 1
  /\ UNCHANGED <<profiles, modules_enabled, audit_log, settings, now, toggled, docs, pager, auditLost, guard, shell, page, completed>>

Tick ==
  /\ NoneDone
  /\ now < MaxClock
  /\ now' = now + 1
  /\ UNCHANGED <<profiles, modules_enabled, audit_log, req, ops, toggled, settings, docs, pager, auditLost, guard, shell, page, completed>>

\* update profiles set ativo = false: access is revoked, the row is kept.
DeactivateProfile ==
  /\ NoneDone
  /\ ops < MaxOps
  /\ \E p \in profiles :
       /\ p.ativo = TRUE
       /\ profiles' = (profiles \ {p}) \cup {[p EXCEPT !.ativo = FALSE]}
  /\ ops' = ops + 1
  /\ UNCHANGED <<modules_enabled, audit_log, now, req, toggled, settings, docs, pager, auditLost, guard, shell, page, completed>>

\* update profiles set role = 'interno': an admin is downgraded.
DowngradeProfile ==
  /\ NoneDone
  /\ ops < MaxOps
  /\ \E p \in profiles :
       /\ p.role = "admin"
       /\ profiles' = (profiles \ {p}) \cup {[p EXCEPT !.role = "interno"]}
  /\ ops' = ops + 1
  /\ UNCHANGED <<modules_enabled, audit_log, now, req, toggled, settings, docs, pager, auditLost, guard, shell, page, completed>>

Next ==
  \/ \E s \in Slots : ToggleBegin(s)
  \/ \E s \in Slots : ToggleSeed(s)
  \/ \E s \in Slots : ToggleUpsert(s)
  \/ \E s \in Slots : ToggleAudit(s)
  \/ \E s \in Slots : ListBegin(s)
  \/ \E s \in Slots : ListFbBegin(s)
  \/ \E s \in Slots : ListSeed(s)
  \/ \E s \in Slots : ListSelect(s)
  \/ \E s \in Slots : AuditListBegin(s)
  \/ \E s \in Slots : AuditListQuery(s)
  \/ \E s \in Slots : SettingsBegin(s)
  \/ \E s \in Slots : SettingsSelect(s)
  \/ \E s \in Slots : SettingsInsert(s)
  \/ \E s \in Slots : SettingsUpdate(s)
  \/ \E s \in Slots : SettingsAudit(s)
  \/ \E s \in Slots : Release(s)
  \/ Tick

\* Two requests, each on a connection of its own, at every interleaving of
\* their database round trips, while the clock advances.
Spec == Init /\ [][Next]_vars

\* Requests one after the other on one connection, while memberships are
\* deactivated and downgraded.
NextAuth ==
  \/ ToggleBegin("s1")
  \/ ToggleSeed("s1")
  \/ ToggleUpsert("s1")
  \/ ToggleAudit("s1")
  \/ ListBegin("s1")
  \/ ListFbBegin("s1")
  \/ ListSeed("s1")
  \/ ListSelect("s1")
  \/ AuditListBegin("s1")
  \/ AuditListQuery("s1")
  \/ SettingsBegin("s1")
  \/ SettingsSelect("s1")
  \/ SettingsInsert("s1")
  \/ SettingsUpdate("s1")
  \/ SettingsAudit("s1")
  \/ ContextGet("s1")
  \/ Release("s1")
  \/ KeepAlive("s1")
  \/ DeactivateProfile
  \/ DowngradeProfile

SpecAuth == Init /\ [][NextAuth]_vars

(***************************************************************************)
(* The two listings over stored tables of several tenants                  *)
(***************************************************************************)
\* The flag rows a tenant can hold: none yet, the seeded catalog, or the
\* seeded catalog after a toggle that disabled docs.
StoredFlagsOf(e, st) ==
  LET seeded == Seed({}, e, 0).rows IN
  IF st = "none" THEN {}
  ELSE IF st = "seeded" THEN seeded
  ELSE Upsert(seeded, TogglePatch(e, "docs", FALSE, 0), 0).rows

StoredFlags ==
  { UNION {StoredFlagsOf(e, st[e]) : e \in Tenants} :
      st \in [Tenants -> {"none", "seeded", "docs_off"}] }

\* Both tenants hold flag rows and the log holds events of either.
InitLists ==
  /\ profiles = InitProfiles
  /\ modules_enabled \in {flags \in StoredFlags :
                            \A e \in Tenants : TenantRows(flags, e) # {}}
  /\ audit_log \in StoredLogs
  /\ settings = {}
  /\ now = MaxClock
  /\ req = [s \in Slots |-> Idle]
  /\ ops = 0
  /\ toggled = {}
  /\ docs = {}
  /\ pager = NoPager
  /\ auditLost = FALSE
  /\ guard = NoGuard
  /\ shell = NoShell
  /\ page = NoPage
  /\ completed = {}

\* The console shows one page at a time. The shell and the modules page call
\* the module listing while the audit page is not open.
AuditPageClosed == pager.pc = "closed"

\* The audit page is opened from the menu, which the shell draws when its
\* module listing has been answered, or with no request made.
MenuDrawn ==
  \/ req["s1"].pc = Idle.pc
  \/ /\ req["s1"].pc = "done"
     /\ req["s1"].kind = "list"
     /\ req["s1"].resp.status = 200

NextLists ==
  \/ AuditPageClosed /\ ListBegin("s1")
  \/ AuditPageClosed /\ ListFbBegin("s1")
  \/ AuditPageClosed /\ ListSeed("s1")
  \/ AuditPageClosed /\ ListSelect("s1")
  \/ AuditPageClosed /\ AuditListBegin("s1")
  \/ AuditPageClosed /\ AuditListQuery("s1")
  \/ AuditPageClosed /\ Release("s1")
  \/ MenuDrawn /\ PagerLoad
  \/ MenuDrawn /\ PagerLoadMore

SpecLists == InitLists /\ [][NextLists]_vars

\* Requests one after the other on one connection, over every handler that
\* records an audit event.
NextDocs ==
  \/ ToggleBegin("s1")
  \/ ToggleSeed("s1")
  \/ ToggleUpsert("s1")
  \/ ToggleAudit("s1")
  \/ SettingsBegin("s1")
  \/ SettingsSelect("s1")
  \/ SettingsInsert("s1")
  \/ SettingsUpdate("s1")
  \/ SettingsAudit("s1")
  \/ DocsCreate11Begin("s1")
  \/ DocsCreate11Insert("s1")
  \/ DocsCreate11Path("s1")
  \/ DocsCreate11Sign("s1")
  \/ DocsCreate11Audit("s1")
  \/ DocsCreateBegin("s1")
  \/ DocsCreateInsert("s1")
  \/ DocsCreateAudit("s1")
  \/ DocsCreateSign("s1")
  \/ DocsCompleteBegin("s1")
  \/ DocsCompleteUpdate("s1")
  \/ DocsCompleteAudit("s1")
  \/ Release("s1")
  \/ KeepAlive("s1")

SpecDocs == Init /\ [][NextDocs]_vars

(***************************************************************************)
(* The navigation guard (components/adm/module-guard.tsx) over the module  *)
(* registry (components/adm/module-registry.ts)                            *)
(***************************************************************************)
\* A pathname is the sequence of its pieces: "/" and the runs of characters
\* the routes are spelled with, so that one pathname starts with another
\* exactly when its pieces do ("/adm/docsfoo" starts with "/adm/docs").
ADM == <<"/", "adm">>
ADM_CORE == <<"/", "adm", "/", "core">>
ADM_CORE_MODULOS == <<"/", "adm", "/", "core", "/", "modulos">>

ROUTES_BY_MODULE ==
  [ core |-> [href |-> ADM],
    docs |-> [href |-> <<"/", "adm", "/", "docs">>] ]

\* Object.entries(ROUTES_BY_MODULE): the keys in declaration order.
ROUTE_ENTRIES == <<"core", "docs">>

\* The pathnames the browser is sent to.
Pathnames ==
  { <<>>,
    ADM,
    ADM_CORE,
    ADM_CORE_MODULOS,
    <<"/", "adm", "/", "core", "x">>,
    <<"/", "adm", "/", "docs">>,
    <<"/", "adm", "/", "docs", "/", "x">>,
    <<"/", "adm", "/", "docs", "foo">>,
    <<"/", "adm", "/", "people">>,
    <<"/", "adm", "/", "people", "/", "x">>,
    <<"/", "adm", "/", "ghost">> }

\* The enabled sets the shell hands to the guard: core is always in them.
EnabledKeySets == {{"core"} \cup ks : ks \in SUBSET {"docs", "people", "track"}}

\* pathname.startsWith(prefix)
StartsWith(pathname, prefix) ==
  /\ Len(prefix) <= Len(pathname)
  /\ SubSeq(pathname, 1, Len(prefix)) = prefix

\* The loop of resolveModuleFromPath: the key of the longest matching href.
RECURSIVE BestMatch(_, _, _)
BestMatch(keys, pathname, best) ==
  IF keys = <<>> THEN best
  ELSE LET key == Head(keys)
           href == ROUTES_BY_MODULE[key].href
           hit == /\ href # ADM
                  /\ \/ pathname = href
                     \/ StartsWith(pathname, href \o <<"/">>)
                     \/ StartsWith(pathname, href)
       IN BestMatch(Tail(keys), pathname,
                    IF hit /\ (best = Null \/ Len(href) > Len(ROUTES_BY_MODULE[best].href))
                    THEN key ELSE best)

ResolveModuleFromPath(pathname) ==
  IF pathname = <<>> THEN Null
  ELSE IF pathname = ADM \/ StartsWith(pathname, ADM_CORE) THEN "core"
  ELSE LET best == BestMatch(ROUTE_ENTRIES, pathname, Null) IN
       IF best = Null THEN Null
       ELSE IF best \notin VALID_MODULES THEN Null
       ELSE best

\* Variant of GuardEffect: a module that is not enabled is redirected to its
\* own landing route.
GuardEffect_RedirectsToModule ==
  /\ guard.pc = "render"
  /\ LET moduleKey == ResolveModuleFromPath(guard.pathname)
         Denied(reason, target) ==
           [guard EXCEPT !.allowed = FALSE, !.reason = reason,
                         !.redirect = target, !.pc = "replace"]
     IN guard' =
          IF moduleKey = Null THEN [guard EXCEPT !.allowed = TRUE, !.pc = "settled"]
          ELSE IF moduleKey = "core"
          THEN [guard EXCEPT !.allowed = TRUE, !.pc = "settled"]
          ELSE IF moduleKey \notin DOMAIN ROUTES_BY_MODULE
          THEN Denied("not_implemented", ADM)
          ELSE IF ~MODULES[moduleKey].implemented
          THEN Denied("not_implemented", ADM)
          ELSE IF moduleKey \notin guard.enabledKeys
          THEN Denied("not_enabled", ROUTES_BY_MODULE[moduleKey].href)
          ELSE [guard EXCEPT !.allowed = TRUE, !.pc = "settled"]
  /\ UNCHANGED <<profiles, modules_enabled, audit_log, settings, now, req, ops, toggled, docs, pager, auditLost, shell, page, completed>>

\* The effect of ModuleGuard on [pathname, router, empresaId, enabledKeys].
GuardEffect ==
  /\ guard.pc = "render"
  /\ LET moduleKey == ResolveModuleFromPath(guard.pathname)
         Denied(reason, target) ==
           [guard EXCEPT !.allowed = FALSE, !.reason = reason,
                         !.redirect = target, !.pc = "replace"]
     IN guard' =
          IF moduleKey = Null THEN [guard EXCEPT !.allowed = TRUE, !.pc = "settled"]
          ELSE IF moduleKey = "core"
          THEN [guard EXCEPT !.allowed = TRUE, !.pc = "settled"]
          ELSE IF moduleKey \notin DOMAIN ROUTES_BY_MODULE
          THEN Denied("not_implemented", ADM)
          ELSE IF ~MODULES[moduleKey].implemented
          THEN Denied("not_implemented", ADM)
          ELSE IF moduleKey \notin guard.enabledKeys
          THEN Denied("not_enabled", ADM_CORE_MODULOS)
          ELSE [guard EXCEPT !.allowed = TRUE, !.pc = "settled"]
  /\ UNCHANGED <<profiles, modules_enabled, audit_log, settings, now, req, ops, toggled, docs, pager, auditLost, shell, page, completed>>

\* router.replace(target): the pathname changes and the effect runs again.
GuardReplace ==
  /\ guard.pc = "replace"
  /\ guard' = [guard EXCEPT !.pathname = guard.redirect, !.pc = "render"]
  /\ UNCHANGED <<profiles, modules_enabled, audit_log, settings, now, req, ops, toggled, docs, pager, auditLost, shell, page, completed>>

\* The user opens another URL of the console.
GuardNavigate ==
  /\ guard.pc = "settled"
  /\ \E p \in Pathnames :
       guard' = [guard EXCEPT !.asked = p, !.pathname = p, !.reason = "",
                              !.redirect = <<>>, !.pc = "render"]
  /\ UNCHANGED <<profiles, modules_enabled, audit_log, settings, now, req, ops, toggled, docs, pager, auditLost, shell, page, completed>>

\* Variant of GuardEnabledKeys: the effect does not list enabledKeys among
\* its dependencies and does not run again.
GuardEnabledKeys_NoRerun ==
  /\ guard.pc = "settled"
  /\ \E ks \in EnabledKeySets \ {guard.enabledKeys} :
       guard' = [guard EXCEPT !.enabledKeys = ks]
  /\ UNCHANGED <<profiles, modules_enabled, audit_log, settings, now, req, ops, toggled, docs, pager, auditLost, shell, page, completed>>

\* The shell hands the guard another enabled set: the effect runs again on
\* the pathname the browser is at.
GuardEnabledKeys ==
  /\ guard.pc = "settled"
  /\ \E ks \in EnabledKeySets \ {guard.enabledKeys} :
       guard' = [guard EXCEPT !.enabledKeys = ks, !.pc = "render"]
  /\ UNCHANGED <<profiles, modules_enabled, audit_log, settings, now, req, ops, toggled, docs, pager, auditLost, shell, page, completed>>

\* The shell hands the guard another active tenant together with the enabled
\* set it holds for that tenant: the effect runs again.
GuardEmpresaId ==
  /\ guard.pc = "settled"
  /\ \E e \in Tenants \ {guard.empresaId}, ks \in EnabledKeySets :
       guard' = [guard EXCEPT !.empresaId = e, !.enabledKeys = ks, !.pc = "render"]
  /\ UNCHANGED <<profiles, modules_enabled, audit_log, settings, now, req, ops, toggled, docs, pager, auditLost, shell, page, completed>>

\* The console is opened at /adm with the enabled set the shell starts from.
InitGuard ==
  /\ profiles = InitProfiles
  /\ modules_enabled = {}
  /\ audit_log = <<>>
  /\ settings = {}
  /\ now = 0
  /\ req = [s \in Slots |-> Idle]
  /\ ops = 0
  /\ toggled = {}
  /\ docs = {}
  /\ pager = NoPager
  /\ auditLost = FALSE
  /\ shell = NoShell
  /\ page = NoPage
  /\ completed = {}
  /\ guard \in {[NoGuard EXCEPT !.pc = "render", !.asked = ADM, !.pathname = ADM,
                                !.enabledKeys = ks] : ks \in EnabledKeySets}

NextGuard ==
  \/ GuardEffect
  \/ GuardReplace
  \/ GuardNavigate
  \/ GuardEnabledKeys
  \/ GuardEmpresaId

SpecGuard == InitGuard /\ [][NextGuard]_vars

\* React runs a scheduled effect and the router carries out a requested
\* replace: neither stays pending for ever.
SpecGuardFair ==
  InitGuard /\ [][NextGuard]_vars /\ WF_vars(GuardEffect) /\ WF_vars(GuardReplace)

(***************************************************************************)
(* The admin shell (components/adm/adm-shell.tsx): tenant selector, enabled *)
(* set, menu and cache over GET /api/admin/core/modules/list               *)
(***************************************************************************)
\* buildMenu(keys): core first, then the implemented modules that have a
\* route, by label; an item is named by its module.
BuildMenu(keys) ==
  LET allowedKeys == {k \in keys : \/ k = "core"
                                   \/ /\ MODULES[k].implemented
                                      /\ k \in DOMAIN ROUTES_BY_MODULE}
      rest == OrderByKey({[module_key |-> k] : k \in allowedKeys \ {"core"}})
  IN (IF "core" \in allowedKeys THEN <<"core">> ELSE <<>>)
       \o [i \in 1..Len(rest) |-> rest[i].module_key]

\* uniq(["core", ...enabled]) of a module listing.
EnabledKeysOf(modules) ==
  {"core"} \cup {modules[i].module_key :
                   i \in {j \in 1..Len(modules) :
                            /\ modules[j].enabled
                            /\ modules[j].module_key \in VALID_MODULES}}

\* Variant of ProvisionalKeys: the cached set is taken as it is.
ProvisionalKeys_AsCached(cache, e) == cache[e]

\* getEnabledModulesCache(e) ?? CORE_ONLY, with core added.
ProvisionalKeys(cache, e) ==
  IF cache[e] = {} THEN {"core"} ELSE {"core"} \cup cache[e]

\* The request of loadEnabledModules(eid) as the list handler admits it.
ShellFetch(u, eid) ==
  LET r == Arrive("list", u, eid, "", FALSE)
      check == ListCheck(r, "", FALSE)
  IN IF check.ok
     THEN [r EXCEPT !.pc = "seed", !.empresaId = check.empresaId,
                    !.profileId = check.profileId]
     ELSE Finish(r, ErrResp(check.status, check.error))

\* loadContext and the effect on [empresaId]: the shell starts on one of the
\* user's tenants, shows the cached set, and calls loadEnabledModules.
ShellMount(s) ==
  /\ shell.pc = "off"
  /\ FreeSlot(s)
  /\ \E u \in Users :
       \E e \in {p.empresa_id : p \in {q \in profiles : q.user_id = u /\ q.ativo = TRUE}} :
         /\ shell' = [shell EXCEPT !.pc = "on", !.userId = u, !.empresaId = e,
                        !.enabledKeys = ProvisionalKeys(shell.cache, e),
                        !.menu = BuildMenu(ProvisionalKeys(shell.cache, e))]
         /\ req' = [req EXCEPT ![s] = ShellFetch(u, e)]
  /\ UNCHANGED <<profiles, modules_enabled, audit_log, settings, now, ops, toggled, docs, pager, auditLost, guard, page, completed>>

\* onChangeEmpresaId(next) and the effect on [empresaId].
ShellChangeEmpresaId(s) ==
  /\ shell.pc = "on"
  /\ FreeSlot(s)
  /\ \E next \in {p.empresa_id : p \in {q \in profiles : q.user_id = shell.userId
                                                      /\ q.ativo = TRUE}}
                 \ {shell.empresaId} :
       /\ shell' = [shell EXCEPT !.empresaId = next,
                      !.enabledKeys = ProvisionalKeys(shell.cache, next),
                      !.menu = BuildMenu(ProvisionalKeys(shell.cache, next)),
                      !.fresh = {}]
       /\ req' = [req EXCEPT ![s] = ShellFetch(shell.userId, next)]
  /\ UNCHANGED <<profiles, modules_enabled, audit_log, settings, now, ops, toggled, docs, pager, auditLost, guard, page, completed>>

\* The rest of loadEnabledModules(eid) when its response arrives: an error
\* changes nothing; a listing whose empresa_id is eid sets the enabled set,
\* the cache of eid and the menu.
ShellDeliver(s) ==
  /\ req[s].kind = "list"
  /\ req[s].pc = "done"
  /\ LET eid == req[s].hdr
         uniq == EnabledKeysOf(req[s].resp.modules)
     IN shell' =
          IF req[s].resp.status # 200 \/ req[s].empresaId # eid THEN shell
          ELSE [shell EXCEPT !.enabledKeys = uniq,
                             !.cache = [@ EXCEPT ![eid] = uniq],
                             !.menu = BuildMenu(uniq),
                             !.fresh = IF eid = shell.empresaId THEN uniq ELSE @]
  /\ req' = [req EXCEPT ![s] = Idle]
  /\ UNCHANGED <<profiles, modules_enabled, audit_log, settings, now, ops, toggled, docs, pager, auditLost, guard, page, completed>>

\* The profiles with the inactive membership of u1 in t2 activated, so that
\* one admin has two tenants to switch between.
ShellProfiles ==
  {IF p.id = "p4" THEN [p EXCEPT !.ativo = TRUE] ELSE p : p \in InitProfiles}

InitShell ==
  /\ profiles = ShellProfiles
  /\ modules_enabled \in StoredFlags
  /\ audit_log = <<>>
  /\ settings = {}
  /\ now = MaxClock
  /\ req = [s \in Slots |-> Idle]
  /\ ops = 0
  /\ toggled = {}
  /\ docs = {}
  /\ pager = NoPager
  /\ auditLost = FALSE
  /\ guard = NoGuard
  /\ shell = NoShell
  /\ page = NoPage
  /\ completed = {}

NextShell ==
  \/ \E s \in Slots : ShellMount(s)
  \/ \E s \in Slots : ShellChangeEmpresaId(s)
  \/ \E s \in Slots : ListSeed(s)
  \/ \E s \in Slots : ListSelect(s)
  \/ \E s \in Slots : ShellDeliver(s)

SpecShell == InitShell /\ [][NextShell]_vars

\* loadContext when the context request fails, answers ok: false, or names
\* no tenant: no tenant, CORE_ONLY and the Core item.
ShellContextFails ==
  /\ shell.pc = "off"
  /\ shell' = [shell EXCEPT !.pc = "failed", !.empresaId = NoHeader,
                            !.enabledKeys = {"core"}, !.menu = <<"core">>]
  /\ UNCHANGED <<profiles, modules_enabled, audit_log, settings, now, req, ops, toggled, docs, pager, auditLost, guard, page, completed>>

\* The "moduz:modules-updated" listener: an event for the tenant the shell
\* is on sets the enabled set, the cache and the menu; any other is ignored.
ShellOnUpdated ==
  /\ \E eid \in Tenants \cup {NoHeader}, keysRaw \in EnabledKeySets :
       shell' = IF eid = NoHeader \/ eid # shell.empresaId THEN shell
                ELSE LET uniq == {"core"} \cup (keysRaw \cap VALID_MODULES)
                     IN [shell EXCEPT !.enabledKeys = uniq,
                                      !.cache = [@ EXCEPT ![eid] = uniq],
                                      !.menu = BuildMenu(uniq)]
  /\ UNCHANGED <<profiles, modules_enabled, audit_log, settings, now, req, ops, toggled, docs, pager, auditLost, guard, page, completed>>

\* The shell through all of its handlers: context load and failure, tenant
\* switch, list responses and failures, modules-updated events.
NextShellStates ==
  \/ NextShell
  \/ ShellContextFails
  \/ ShellOnUpdated

SpecShellStates == InitShell /\ [][NextShellStates]_vars

(***************************************************************************)
(* The modules page (app/adm/core/modulos/page.tsx): load, optimistic      *)
(* toggle and rollback, and the enabled set it pushes to the shell         *)
(***************************************************************************)
\* syncHeaderFrom(nextRows, eid) and the shell's "moduz:modules-updated"
\* listener: an event for the tenant the shell is on sets its enabled set,
\* its cache and its menu.
SyncHeaderFrom(sh, nextRows, eid) ==
  LET keys == EnabledKeysOf(nextRows) IN
  IF eid = NoHeader \/ eid # sh.empresaId THEN sh
  ELSE [sh EXCEPT !.enabledKeys = keys,
                  !.cache = [@ EXCEPT ![eid] = keys],
                  !.menu = BuildMenu(keys)]

\* prev.map(r => r.module_key === k ? f(r) : r)
MapRow(rows, k, new) ==
  [i \in 1..Len(rows) |-> IF rows[i].module_key = k THEN new[i] ELSE rows[i]]

\* Variant of ClientPreCheck: the page applies the server's rule, blocking
\* only the disabling of core.
ClientPreCheck_ServerRule(k, enabled) ==
  IF k = "core" /\ ~enabled THEN "CORE_LOCKED" ELSE ""

\* The pre-check of toggle(module_key, enabled): what it blocks, and with
\* which toast; "" lets the toggle through.
ClientPreCheck(k, enabled) ==
  IF MODULES[k].locked THEN "CORE_LOCKED"
  ELSE IF ~MODULES[k].implemented THEN "NOT_AVAILABLE"
  ELSE ""

\* load(): the page takes the tenant of the selector and requests the list.
PageLoad(s) ==
  /\ shell.pc = "on"
  /\ FreeSlot(s)
  /\ page' = [page EXCEPT !.pc = "on", !.empresaId = shell.empresaId, !.err = ""]
  /\ req' = [req EXCEPT ![s] = ShellFetch(shell.userId, shell.empresaId)]
  /\ UNCHANGED <<profiles, modules_enabled, audit_log, settings, now, ops, toggled, docs, pager, auditLost, guard, shell, completed>>

\* The rest of load() when the response arrives: an error empties the rows;
\* a listing replaces them and is pushed to the header.
PageLoadDeliver(s) ==
  /\ req[s].kind = "list"
  /\ req[s].pc = "done"
  /\ IF req[s].resp.status # 200
     THEN /\ page' = [page EXCEPT !.err = req[s].resp.error, !.rows = <<>>]
          /\ UNCHANGED shell
     ELSE /\ page' = [page EXCEPT !.rows = req[s].resp.modules]
          /\ shell' = SyncHeaderFrom(shell, req[s].resp.modules, req[s].hdr)
  /\ req' = [req EXCEPT ![s] = Idle]
  /\ UNCHANGED <<profiles, modules_enabled, audit_log, settings, now, ops, toggled, docs, pager, auditLost, guard, completed>>

\* toggle(m.module_key, !m.enabled) on a row that is not busy: the pre-check
\* answers with a toast, or the row is changed optimistically, the header is
\* synced and the request is sent. Toggles that are sent count against MaxOps.
PageToggle(s) ==
  /\ page.pc = "on"
  /\ page.empresaId # NoHeader
  /\ \E i \in 1..Len(page.rows) :
       LET k == page.rows[i].module_key
           enabled == ~page.rows[i].enabled
           blocked == ClientPreCheck(k, enabled)
           next == MapRow(page.rows, k,
                          [j \in 1..Len(page.rows) |->
                             [page.rows[j] EXCEPT !.enabled = enabled]])
           r == Arrive("toggle", shell.userId, page.empresaId, k, enabled)
           check == ToggleCheck(r, "", FALSE)
       IN /\ page.busyKey # k
          /\ IF blocked # ""
             THEN /\ page' = [page EXCEPT !.toast = blocked]
                  /\ UNCHANGED <<req, shell, ops>>
             ELSE /\ FreeSlot(s)
                  /\ ops < MaxOps
                  /\ ops' = ops + 1
                  /\ page' = [page EXCEPT
                                !.rows = next, !.busyKey = k, !.toast = "",
                                !.tog = [moduleKey |-> k, enabled |-> enabled,
                                         before |-> page.rows[i].enabled,
                                         headerBefore |-> shell.enabledKeys]]
                  /\ shell' = SyncHeaderFrom(shell, next, page.empresaId)
                  /\ req' = [req EXCEPT ![s] =
                               IF check.ok
                               THEN [r EXCEPT !.pc = "seed",
                                              !.empresaId = check.empresaId,
                                              !.profileId = check.profileId]
                               ELSE Finish(r, ErrResp(check.status, check.error))]
  /\ UNCHANGED <<profiles, modules_enabled, audit_log, settings, now, toggled, docs, pager, auditLost, guard, completed>>

\* The rest of toggle() when the response arrives: ok puts the returned row
\* in place; anything else rolls the row back to !enabled and shows the
\* server's error. Either way the header is synced and the key is freed.
PageToggleDeliver(s) ==
  /\ req[s].kind = "toggle"
  /\ req[s].pc = "done"
  /\ LET k == req[s].moduleKey
         enabled == req[s].enabled
         next == IF req[s].resp.status = 200
                 THEN MapRow(page.rows, k,
                             [j \in 1..Len(page.rows) |-> req[s].resp.module])
                 ELSE MapRow(page.rows, k,
                             [j \in 1..Len(page.rows) |->
                                [page.rows[j] EXCEPT !.enabled = ~enabled]])
     IN /\ page' = [page EXCEPT
                      !.rows = next, !.busyKey = "",
                      !.toast = IF req[s].resp.status = 200 THEN "ok"
                                ELSE req[s].resp.error]
        /\ shell' = SyncHeaderFrom(shell, next, req[s].hdr)
  /\ req' = [req EXCEPT ![s] = Idle]
  /\ UNCHANGED <<profiles, modules_enabled, audit_log, settings, now, ops, toggled, docs, pager, auditLost, guard, completed>>

\* The guardrail error POST toggle answers an admitted admin of tenant e
\* with, "" when the request passes the guardrails.
ServerGuardrail(u, e, k, enabled) ==
  LET check == ToggleCheck(Arrive("toggle", u, e, k, enabled), "", FALSE) IN
  IF ~check.ok /\ check.error \in {"INVALID_MODULE_KEY", "CORE_CANNOT_BE_DISABLED"}
  THEN check.error
  ELSE ""

\* The states the page is opened in: an admin's shell has settled on one of
\* the admin's tenants and shows what the server holds for it.
SettledShells(flags) ==
  { [NoShell EXCEPT !.pc = "on", !.userId = p.user_id, !.empresaId = p.empresa_id,
       !.enabledKeys = EnabledKeysOf(SelectModules(flags, p.empresa_id)),
       !.menu = BuildMenu(EnabledKeysOf(SelectModules(flags, p.empresa_id))),
       !.cache = [@ EXCEPT ![p.empresa_id] =
                    EnabledKeysOf(SelectModules(flags, p.empresa_id))],
       !.fresh = EnabledKeysOf(SelectModules(flags, p.empresa_id))] :
      p \in {q \in InitProfiles :
               /\ q.role = "admin" /\ q.ativo = TRUE
               /\ TenantRows(flags, q.empresa_id) # {}} }

InitPage ==
  /\ profiles = InitProfiles
  /\ modules_enabled \in StoredFlags
  /\ audit_log = <<>>
  /\ settings = {}
  /\ now = MaxClock
  /\ req = [s \in Slots |-> Idle]
  /\ ops = 0
  /\ toggled = {}
  /\ docs = {}
  /\ pager = NoPager
  /\ auditLost = FALSE
  /\ guard = NoGuard
  /\ completed = {}
  /\ shell \in SettledShells(modules_enabled)
  /\ page = NoPage

NextPage ==
  \/ \E s \in Slots : PageLoad(s)
  \/ \E s \in Slots : PageLoadDeliver(s)
  \/ \E s \in Slots : PageToggle(s)
  \/ \E s \in Slots : PageToggleDeliver(s)
  \/ \E s \in Slots : ListSeed(s)
  \/ \E s \in Slots : ListSelect(s)
  \/ \E s \in Slots : ToggleSeed(s)
  \/ \E s \in Slots : ToggleUpsert(s)
  \/ \E s \in Slots : ToggleAudit(s)

SpecPage == InitPage /\ [][NextPage]_vars

(***************************************************************************)
(* The console: AdmShell renders ModuleGuard with its empresaId and         *)
(* enabledKeys (adm-shell.tsx, <ModuleGuard empresaId enabledKeys>)         *)
(***************************************************************************)
\* The guard holds the props the shell last rendered and its effect has run.
ConsoleAtRest ==
  /\ guard.pc = "settled"
  /\ guard.empresaId = shell.empresaId
  /\ guard.enabledKeys = shell.enabledKeys

\* The shell renders again after a state change: the guard receives the
\* shell's empresaId and enabledKeys and its effect runs again.
GuardProps ==
  /\ guard.pc = "settled"
  /\ \/ guard.empresaId # shell.empresaId
     \/ guard.enabledKeys # shell.enabledKeys
  /\ guard' = [guard EXCEPT !.empresaId = shell.empresaId,
                            !.enabledKeys = shell.enabledKeys, !.pc = "render"]
  /\ UNCHANGED <<profiles, modules_enabled, audit_log, settings, now, req, ops, toggled, docs, pager, auditLost, shell, page, completed>>

\* The console is opened at a URL in a browser without cached sets: the shell
\* starts with CORE_ONLY and no tenant, and the guard's effect runs on them
\* before loadContext has fetched anything.
InitConsole ==
  /\ profiles = ShellProfiles
  /\ modules_enabled \in StoredFlags
  /\ audit_log = <<>>
  /\ settings = {}
  /\ now = MaxClock
  /\ req = [s \in Slots |-> Idle]
  /\ ops = 0
  /\ toggled = {}
  /\ docs = {}
  /\ pager = NoPager
  /\ auditLost = FALSE
  /\ shell = NoShell
  /\ page = NoPage
  /\ completed = {}
  /\ guard \in {[NoGuard EXCEPT !.pc = "render", !.asked = p, !.pathname = p,
                                !.enabledKeys = NoShell.enabledKeys] :
                  p \in {ADM, ROUTES_BY_MODULE["docs"].href}}

\* Effects and re-renders complete before the next event is handled.
NextConsole ==
  \/ GuardEffect
  \/ GuardReplace
  \/ GuardProps
  \/ ConsoleAtRest /\ GuardNavigate
  \/ ConsoleAtRest /\ ShellMount("s1")
  \/ ConsoleAtRest /\ ShellChangeEmpresaId("s1")
  \/ ListSeed("s1")
  \/ ListSelect("s1")
  \/ ConsoleAtRest /\ ShellDeliver("s1")

SpecConsole == InitConsole /\ [][NextConsole]_vars

(***************************************************************************)
(* GET /api/admin/docs/list                                                *)
(***************************************************************************)
DOCS_LIST_LIMIT == 50

\* Header, session, assertMember.
DocsListCheck(r, lookupFails) ==
  IF r.hdr = NoHeader THEN Deny(400, "MISSING_EMPRESA_ID")
  ELSE IF r.userId = NoUser THEN Deny(401, "MISSING_SESSION")
  ELSE AssertMember(r.userId, r.hdr, lookupFails)

DocsListBegin(s) ==
  /\ FreeSlot(s)
  /\ \E u \in Users \cup {NoUser}, h \in Tenants \cup {NoHeader}, lookupFails \in BOOLEAN :
       LET r == Arrive("doclist", u, h, "", FALSE)
           check == DocsListCheck(r, lookupFails)
       IN req' = [req EXCEPT ![s] =
                    IF check.ok
                    THEN [r EXCEPT !.pc = "ldocs", !.empresaId = check.empresaId,
                                   !.profileId = check.profileId]
                    ELSE Finish([r EXCEPT !.fault = lookupFails],
                                ErrResp(check.status, check.error))]
  /\ UNCHANGED <<profiles, modules_enabled, audit_log, settings, now, ops, toggled, docs, pager, auditLost, guard, shell, page, completed>>

\* .eq("empresa_id", e).order("created_at", {ascending: false}).limit(50):
\* ids are issued in creation order, so the latest documents are those of
\* the highest ids.
LatestDocs(e, limit) ==
  LET D == {d \in docs : d.empresa_id = e}
      n == IF Cardinality(D) < limit THEN Cardinality(D) ELSE limit
  IN [i \in 1..n |-> CHOOSE d \in D : Cardinality({x \in D : x.id > d.id}) = i - 1]

\* 1) the tenant's latest documents.
DocsListDocs(s) ==
  /\ NoneDone
  /\ req[s].kind = "doclist"
  /\ req[s].pc = "ldocs"
  /\ \E fault \in BOOLEAN :
       req' = [req EXCEPT ![s] =
                 IF fault
                 THEN Finish([@ EXCEPT !.fault = TRUE], ErrResp(500, "DB_ERROR"))
                 ELSE [@ EXCEPT !.pc = "laudits",
                                !.resp = [NoResp EXCEPT
                                            !.items = LatestDocs(req[s].empresaId,
                                                                 DOCS_LIST_LIMIT)]]]
  /\ UNCHANGED <<profiles, modules_enabled, audit_log, settings, now, ops, toggled, docs, pager, auditLost, guard, shell, page, completed>>

\* The entity_id values of the tenant's DOC_UPLOADED events among ids; the
\* event's entity_id is the doc_id of its payload.
UploadedSet(log, e, ids) ==
  {log[i].payload.doc_id :
     i \in {j \in 1..Len(log) : /\ log[j].empresa_id = e
                                /\ log[j].action = "DOC_UPLOADED"
                                /\ log[j].payload.doc_id \in ids}}

\* 2) the audit query, whose error is ignored, and the response: uploaded_ok
\* is uploadedSet.has(id).
DocsListAudits(s) ==
  /\ NoneDone
  /\ req[s].kind = "doclist"
  /\ req[s].pc = "laudits"
  /\ \E aErr \in BOOLEAN :
       LET rows == req[s].resp.items
           ids == {rows[i].id : i \in 1..Len(rows)}
           uploadedSet == IF ids = {} \/ aErr THEN {}
                          ELSE UploadedSet(audit_log, req[s].empresaId, ids)
           out == [i \in 1..Len(rows) |->
                     [id |-> rows[i].id, empresa_id |-> rows[i].empresa_id,
                      filename |-> rows[i].filename,
                      uploaded_ok |-> rows[i].id \in uploadedSet]]
       IN req' = [req EXCEPT ![s] =
                    Finish([@ EXCEPT !.fault = aErr /\ ids # {}],
                           [NoResp EXCEPT !.status = 200, !.items = out])]
  /\ UNCHANGED <<profiles, modules_enabled, audit_log, settings, now, ops, toggled, docs, pager, auditLost, guard, shell, page, completed>>

\* A document of tenant e as a successful create leaves it, made by the
\* tenant's first admin.
StoredDoc(e, id) ==
  LET admin == CHOOSE p \in InitProfiles :
                 p.empresa_id = e /\ p.role = "admin" /\ p.ativo = TRUE
                 /\ \A q \in InitProfiles :
                      (q.empresa_id = e /\ q.role = "admin" /\ q.ativo = TRUE)
                      => p.created_at <= q.created_at
  IN [id |-> id, empresa_id |-> e,
      storage_path |-> StoragePath(e, id, SafeName("x/a.pdf")),
      filename |-> SafeName("x/a.pdf"), created_by |-> admin.user_id,
      status |-> "pending"]

\* The docs tables of up to MaxDocs created documents.
StoredDocs ==
  UNION { { {StoredDoc(es[i], i) : i \in 1..n} : es \in [1..n -> Tenants] } :
          n \in 0..MaxDocs }

InitDocsList ==
  /\ profiles = InitProfiles
  /\ modules_enabled = {}
  /\ audit_log = <<>>
  /\ settings = {}
  /\ now = MaxClock
  /\ req = [s \in Slots |-> Idle]
  /\ ops = 0
  /\ toggled = {}
  /\ docs \in StoredDocs
  /\ pager = NoPager
  /\ auditLost = FALSE
  /\ guard = NoGuard
  /\ shell = NoShell
  /\ page = NoPage
  /\ completed = {}

NextDocsList ==
  \/ DocsCompleteBegin("s1")
  \/ DocsCompleteUpdate("s1")
  \/ DocsCompleteAudit("s1")
  \/ DocsListBegin("s1")
  \/ DocsListDocs("s1")
  \/ DocsListAudits("s1")
  \/ KeepAlive("s1")

\* Documents are completed and listed, one request after the other.
SpecDocsList == InitDocsList /\ [][NextDocsList]_vars

(***************************************************************************)
(* Properties.                                                             *)
(***************************************************************************)

\* C1 (as amended): once a tenant is seeded its core row has enabled = true
\* in every state, and every toggle request with body (core, false) is
\* answered with an error in the step that receives it and changes no flag
\* row: the error is CORE_CANNOT_BE_DISABLED when the caller is an active
\* admin of the tenant the header names, unless the profile lookup fails, and
\* the error of an earlier check (header, session, membership) otherwise.
C1_CoreStaysEnabled ==
  [][ /\ \A e \in Tenants :
           TenantRows(modules_enabled', e) # {} =>
             /\ KeyRows(modules_enabled', e, "core") # {}
             /\ \A row \in KeyRows(modules_enabled', e, "core") : row.enabled = TRUE
      /\ \A s \in Slots :
           (/\ req[s].pc = "idle"
            /\ req'[s].kind = "toggle"
            /\ req'[s].moduleKey = "core"
            /\ req'[s].enabled = FALSE)
           => LET r == req'[s]
                  activeAdmin ==
                    \E p \in profiles : /\ p.user_id = r.userId
                                        /\ p.empresa_id = r.hdr
                                        /\ p.ativo = TRUE
                                        /\ p.role = "admin"
              IN /\ r.pc = "done"
                 /\ r.resp.status >= 400
                 /\ modules_enabled' = modules_enabled
                 /\ r.resp.error \in
                      IF activeAdmin
                      THEN {"CORE_CANNOT_BE_DISABLED", "PROFILE_LOOKUP_FAILED"}
                      ELSE {"MISSING_EMPRESA_ID", "MISSING_SESSION",
                            "PROFILE_LOOKUP_FAILED", "NO_PROFILE", "NOT_ADMIN"}
    ]_vars

\* C1 witness: an admin's request to disable core of a seeded tenant has been
\* answered CORE_CANNOT_BE_DISABLED.
C1_Witness ==
  \E s \in Slots :
    /\ req[s].pc = "done"
    /\ req[s].kind = "toggle"
    /\ req[s].moduleKey = "core"
    /\ req[s].enabled = FALSE
    /\ req[s].resp.error = "CORE_CANNOT_BE_DISABLED"
    /\ \E row \in KeyRows(modules_enabled, req[s].hdr, "core") : row.enabled = TRUE

\* C1 as stated: core stays enabled once seeded, and every toggle request with
\* body (core, false), whoever sends it, is answered with the mandatory-module
\* error and changes no flag row.
C1_AnyCallerGetsCoreError ==
  [][ /\ \A e \in Tenants :
           TenantRows(modules_enabled', e) # {} =>
             /\ KeyRows(modules_enabled', e, "core") # {}
             /\ \A row \in KeyRows(modules_enabled', e, "core") : row.enabled = TRUE
      /\ \A s \in Slots :
           (/\ req[s].pc = "idle"
            /\ req'[s].kind = "toggle"
            /\ req'[s].moduleKey = "core"
            /\ req'[s].enabled = FALSE)
           => /\ req'[s].pc = "done"
              /\ req'[s].resp.error = "CORE_CANNOT_BE_DISABLED"
              /\ modules_enabled' = modules_enabled
    ]_vars

\* C2 as stated: no reachable state has a row with enabled = true for a
\* module whose descriptor has implemented = false.
C2_UnimplementedNeverEnabled ==
  \A row \in modules_enabled :
    row.module_key \in VALID_MODULES /\ row.enabled = TRUE
      => MODULES[row.module_key].implemented = TRUE

\* C3: a toggle request of an authenticated principal who has no active admin
\* membership in the tenant the header names is answered in the step that
\* receives it, with NO_PROFILE or NOT_ADMIN (PROFILE_LOOKUP_FAILED when the
\* lookup itself fails), and neither a flag row nor the audit log changes.
C3_NonAdminToggleDenied ==
  [][ \A s \in Slots :
        (/\ req[s].pc = "idle"
         /\ req'[s].kind = "toggle"
         /\ req'[s].userId # NoUser
         /\ req'[s].hdr # NoHeader
         /\ ~ \E p \in profiles : /\ p.user_id = req'[s].userId
                                  /\ p.empresa_id = req'[s].hdr
                                  /\ p.ativo = TRUE
                                  /\ p.role = "admin")
        => /\ req'[s].pc = "done"
           /\ req'[s].resp.status \in {403, 500}
           /\ req'[s].resp.error \in {"NO_PROFILE", "NOT_ADMIN", "PROFILE_LOOKUP_FAILED"}
           /\ modules_enabled' = modules_enabled
           /\ audit_log' = audit_log
    ]_vars

\* C3 witness: an active member who is not admin asked to disable a module of
\* a seeded tenant and got NOT_ADMIN.
C3_Witness ==
  \E s \in Slots :
    /\ req[s].pc = "done"
    /\ req[s].kind = "toggle"
    /\ req[s].resp.error = "NOT_ADMIN"
    /\ req[s].enabled = FALSE
    /\ TenantRows(modules_enabled, req[s].hdr) # {}

\* C4: in every handler that calls assertAdmin with the tenant of the header,
\* a principal whose membership is absent or has ativo = false is answered
\* NO_PROFILE whatever the stored role (PROFILE_LOOKUP_FAILED when the lookup
\* fails), and NOT_ADMIN is answered only to a principal with an active
\* membership whose role is not admin.
C4_AssertAdminDenials ==
  [][ \A s \in Slots :
        (/\ req[s].pc = "idle"
         /\ req'[s].kind \in {"toggle", "list", "listfb", "auditlist", "settings"}
         /\ req'[s].userId # NoUser
         /\ req'[s].hdr # NoHeader)
        => LET mine == {p \in profiles : /\ p.user_id = req'[s].userId
                                         /\ p.empresa_id = req'[s].hdr}
           IN /\ (mine = {} \/ \E p \in mine : p.ativo = FALSE)
                   => /\ req'[s].pc = "done"
                      /\ req'[s].resp.error \in {"NO_PROFILE", "PROFILE_LOOKUP_FAILED"}
              /\ req'[s].resp.error = "NOT_ADMIN"
                   => \E p \in mine : p.ativo = TRUE /\ p.role # "admin"
              /\ (\E p \in mine : p.ativo = TRUE /\ p.role # "admin")
                   => /\ req'[s].pc = "done"
                      /\ req'[s].resp.error \in {"NOT_ADMIN", "PROFILE_LOOKUP_FAILED"}
    ]_vars

\* C4 witness: a principal whose membership is stored with role admin and
\* ativo = false has been answered NO_PROFILE.
C4_Witness ==
  \E s \in Slots :
    /\ req[s].pc = "done"
    /\ req[s].resp.error = "NO_PROFILE"
    /\ \E p \in profiles : /\ p.user_id = req[s].userId
                           /\ p.empresa_id = req[s].hdr
                           /\ p.role = "admin"
                           /\ p.ativo = FALSE

\* C5: a toggle, module list, audit list or settings update is admitted past
\* its authorization only for a tenant in which the session's user has a
\* membership with ativo = true and role admin, and the request runs as that
\* membership; the tenant is the one the header names, also in the handler
\* that picks a tenant when the header is missing.
C5_AdmittedOnlyByMembership ==
  [][ \A s \in Slots :
        (req[s].pc = "idle" /\ req'[s].pc \notin {"idle", "done"})
        => /\ req'[s].kind \in {"toggle", "list", "listfb", "auditlist", "settings"}
           /\ req'[s].userId # NoUser
           /\ req'[s].hdr # NoHeader => req'[s].empresaId = req'[s].hdr
           /\ \E p \in profiles : /\ p.user_id = req'[s].userId
                                  /\ p.empresa_id = req'[s].empresaId
                                  /\ p.ativo = TRUE
                                  /\ p.role = "admin"
                                  /\ p.id = req'[s].profileId
    ]_vars

\* C5 witness: a list request without tenant header is past its authorization,
\* for the tenant the server picked.
C5_Witness ==
  \E s \in Slots :
    /\ req[s].kind = "listfb"
    /\ req[s].hdr = NoHeader
    /\ req[s].pc = "seed"
    /\ req[s].empresaId \in Tenants

C7_OneRowPerModule ==
  /\ \A e \in Tenants :
       \/ TenantRows(modules_enabled, e) = {}
       \/ /\ \A k \in VALID_MODULES : Cardinality(KeyRows(modules_enabled, e, k)) = 1
          /\ Cardinality(TenantRows(modules_enabled, e)) = Cardinality(VALID_MODULES)
  /\ \A s \in Slots :
       req[s].pc = "done" /\ req[s].resp.error = "SEED_FAILED" => req[s].fault = TRUE

\* C7 witness: two requests for the same tenant are in flight and both have
\* run the seed.
C7_Witness ==
  /\ req["s1"].pc \in {"upsert", "audit", "select"}
  /\ req["s2"].pc \in {"upsert", "audit", "select"}
  /\ req["s1"].empresaId = req["s2"].empresaId
  /\ Cardinality(TenantRows(modules_enabled, req["s1"].empresaId)) = Cardinality(VALID_MODULES)

\* C8: a flag row is replaced only by the upsert of a toggle request for the
\* row's tenant and module; every other step, the seed of a list or toggle
\* request included, leaves every existing row as it is and only adds rows.
C8_RowsChangeOnlyByToggle ==
  [][ \A row \in modules_enabled :
        \/ row \in modules_enabled'
        \/ \E s \in Slots :
             /\ req[s].kind = "toggle"
             /\ req[s].pc = "upsert"
             /\ req'[s].pc = "audit"
             /\ row.empresa_id = req[s].empresaId
             /\ row.module_key = req[s].moduleKey
    ]_vars

\* C8 witness: a list request, which seeds before it reads, has returned a row
\* that a toggle committed with a value other than the seeded one.
C8_Witness ==
  \E s \in Slots :
    /\ req[s].kind = "list"
    /\ req[s].pc = "done"
    /\ req[s].resp.status = 200
    /\ \E i \in 1..Len(req[s].resp.modules) :
         LET m == req[s].resp.modules[i] IN
         /\ m.enabled # SeedValues[m.module_key]
         /\ <<req[s].empresaId, m.module_key>> \in toggled

\* C9: the list of a tenant for which no toggle has been committed has one
\* row per catalog module, in ascending order of module_key, with core and
\* docs enabled and every other module disabled.
C9_FreshList ==
  \A s \in Slots :
    (/\ req[s].pc = "done"
     /\ req[s].kind \in {"list", "listfb"}
     /\ req[s].resp.status = 200
     /\ \A k \in VALID_MODULES : <<req[s].empresaId, k>> \notin toggled)
    => LET modules == req[s].resp.modules IN
       /\ [i \in 1..Len(modules) |-> modules[i].module_key] =
            <<"assets", "bizz", "core", "docs", "finance", "flow",
              "people", "stock", "track">>
       /\ \A i \in 1..Len(modules) :
            modules[i].enabled = (modules[i].module_key \in {"core", "docs"})

\* C9 witness: a list request for a tenant without committed toggle has been
\* answered with the rows.
C9_Witness ==
  \E s \in Slots :
    /\ req[s].pc = "done"
    /\ req[s].kind = "list"
    /\ req[s].resp.status = 200
    /\ Len(req[s].resp.modules) = Cardinality(VALID_MODULES)
    /\ \A k \in VALID_MODULES : <<req[s].empresaId, k>> \notin toggled

\* C10 (as amended): when a toggle with enabled = true is committed for a row
\* that the previous committed toggle left enabled, enabled stays true and
\* enabled_at becomes the time of this call; the row is returned as written.
C10_EnableAgainRestamps ==
  [][ \A s \in Slots :
        (/\ req[s].kind = "toggle"
         /\ req[s].pc = "upsert"
         /\ req'[s].pc = "audit"
         /\ req[s].enabled = TRUE
         /\ <<req[s].empresaId, req[s].moduleKey>> \in toggled
         /\ \E row \in KeyRows(modules_enabled, req[s].empresaId, req[s].moduleKey) :
              row.enabled = TRUE)
        => \A row \in KeyRows(modules_enabled', req[s].empresaId, req[s].moduleKey) :
             /\ row.enabled = TRUE
             /\ row.enabled_at = now
             /\ req'[s].data = Project(row)
    ]_vars

\* C10 witness: a module enabled by a toggle audited at time 0 has been
\* enabled again at time 1 and its row carries enabled_at = 1.
C10_Witness ==
  \E s \in Slots :
    /\ req[s].kind = "toggle"
    /\ req[s].pc = "audit"
    /\ req[s].enabled = TRUE
    /\ req[s].data.enabled_at = 1
    /\ \E i \in 1..Len(audit_log) :
         /\ audit_log[i].empresa_id = req[s].empresaId
         /\ audit_log[i].payload.module_key = req[s].moduleKey
         /\ audit_log[i].payload.enabled = TRUE
         /\ audit_log[i].created_at = 0

\* C10 as stated: when a toggle with enabled = true is committed for a row
\* that the previous committed toggle left enabled, the row keeps enabled =
\* true and the enabled_at it had.
C10_EnableAgainKeepsEnabledAt ==
  [][ \A s \in Slots :
        (/\ req[s].kind = "toggle"
         /\ req[s].pc = "upsert"
         /\ req'[s].pc = "audit"
         /\ req[s].enabled = TRUE
         /\ <<req[s].empresaId, req[s].moduleKey>> \in toggled
         /\ \E row \in KeyRows(modules_enabled, req[s].empresaId, req[s].moduleKey) :
              row.enabled = TRUE)
        => \A row \in KeyRows(modules_enabled', req[s].empresaId, req[s].moduleKey) :
             /\ row.enabled = TRUE
             /\ \E old \in KeyRows(modules_enabled, req[s].empresaId, req[s].moduleKey) :
                  row.enabled_at = old.enabled_at
    ]_vars

\* C11 (as amended): enabled_at of a flag row is never cleared and changes
\* only when a toggle with enabled = true is committed for the row, which
\* sets it to the time of that call; a committed disable and every other step
\* leave it as it is.
C11_EnabledAtChangesOnlyOnEnable ==
  [][ \A row \in modules_enabled :
        \E next \in KeyRows(modules_enabled', row.empresa_id, row.module_key) :
          /\ next.enabled_at >= 0
          /\ IF \E s \in Slots :
                  /\ req[s].kind = "toggle"
                  /\ req[s].pc = "upsert"
                  /\ req'[s].pc = "audit"
                  /\ req[s].enabled = TRUE
                  /\ req[s].empresaId = row.empresa_id
                  /\ req[s].moduleKey = row.module_key
             THEN next.enabled_at = now
             ELSE next.enabled_at = row.enabled_at
    ]_vars

\* C11 witness: a row seeded at time 0 has been disabled by a toggle at time
\* 1 and still carries enabled_at = 0.
C11_Witness ==
  \E row \in modules_enabled :
    /\ <<row.empresa_id, row.module_key>> \in toggled
    /\ row.enabled = FALSE
    /\ row.updated_at = 1
    /\ row.enabled_at = 0

\* C11 as stated: the enabled_at of an existing flag row is the same after
\* every step, also after a repeated enable or a re-enable.
C11_EnabledAtWriteOnce ==
  [][ \A row \in modules_enabled :
        \E next \in KeyRows(modules_enabled', row.empresa_id, row.module_key) :
          next.enabled_at = row.enabled_at
    ]_vars

\* C12: when the upsert of a toggle commits, the (tenant, module) pair has
\* exactly one row and its enabled is the value that toggle asked for, also
\* when another admin's toggle of the same pair is in flight; a step that
\* commits no upsert for a pair leaves the pair's row alone; and a toggle that
\* passed its checks is answered 200 unless a database call itself failed.
C12_LastWriteWins ==
  [][ /\ \A s \in Slots :
           (req[s].kind = "toggle" /\ req[s].pc = "upsert" /\ req'[s].pc = "audit")
           => LET pair == KeyRows(modules_enabled', req[s].empresaId, req[s].moduleKey) IN
              /\ Cardinality(pair) = 1
              /\ \A row \in pair : row.enabled = req[s].enabled
      /\ \A row \in modules_enabled :
           (~ \E s \in Slots :
                /\ req[s].kind = "toggle" /\ req[s].pc = "upsert" /\ req'[s].pc = "audit"
                /\ req[s].empresaId = row.empresa_id
                /\ req[s].moduleKey = row.module_key)
           => KeyRows(modules_enabled', row.empresa_id, row.module_key) = {row}
      /\ \A s \in Slots :
           (/\ req'[s].pc = "done"
            /\ req'[s].kind = "toggle"
            /\ req'[s].profileId # ""
            /\ req'[s].resp.status # 200)
           => req'[s].fault = TRUE
    ]_vars

\* C12 witness: two admins' toggles of the same pair with opposite values have
\* both committed their write and neither has written its audit event yet.
C12_Witness ==
  /\ req["s1"].kind = "toggle" /\ req["s1"].pc = "audit"
  /\ req["s2"].kind = "toggle" /\ req["s2"].pc = "audit"
  /\ req["s1"].empresaId = req["s2"].empresaId
  /\ req["s1"].moduleKey = req["s2"].moduleKey
  /\ req["s1"].userId # req["s2"].userId
  /\ req["s1"].enabled # req["s2"].enabled
  /\ Cardinality(KeyRows(modules_enabled, req["s1"].empresaId, req["s1"].moduleKey)) = 1

\* C13: when the audit insert of a toggle fails, the request is answered 200
\* with the row its upsert wrote and audit = FAILED, and the flag rows stay as
\* written; audit = FAILED is answered only then.
C13_AuditFailureSurfaced ==
  [][ \A s \in Slots :
        (req[s].kind = "toggle" /\ req[s].pc = "audit" /\ req'[s].pc = "done")
        => /\ req'[s].resp.status = 200
           /\ req'[s].resp.module = req[s].data
           /\ modules_enabled' = modules_enabled
           /\ (audit_log' = audit_log) = (req'[s].resp.audit = "FAILED")
           /\ (audit_log' # audit_log) = (req'[s].resp.audit = "OK")
    ]_vars

\* C13 witness: a toggle that disabled docs has been answered 200 with
\* audit = FAILED, no event is in the log and the row is still disabled.
C13_Witness ==
  \E s \in Slots :
    /\ req[s].kind = "toggle"
    /\ req[s].pc = "done"
    /\ req[s].resp.status = 200
    /\ req[s].resp.audit = "FAILED"
    /\ req[s].resp.module.enabled = FALSE
    /\ audit_log = <<>>
    /\ \E row \in KeyRows(modules_enabled, req[s].empresaId, req[s].moduleKey) :
         Project(row) = req[s].resp.module

\* C14 as stated: every request of a handler that records an audit event
\* (module toggle, settings update, document create, document complete) that
\* is answered 200 carries the audit state in its response: FAILED when its
\* audit insert failed, OK when it did not.
C14_EveryWriterReportsAuditState ==
  \A s \in Slots :
    (/\ req[s].pc = "done"
     /\ req[s].kind \in {"toggle", "settings", "doccreate11", "doccreate", "doccomplete"}
     /\ req[s].resp.status = 200)
    => req[s].resp.audit = IF req[s].fault THEN "FAILED" ELSE "OK"

\* C15: the audit log is append-only: every step leaves every event already
\* in the log in its place and as it was, and the log never gets shorter.
C15_AuditLogAppendOnly ==
  [][ /\ Len(audit_log') >= Len(audit_log)
      /\ \A i \in 1..Len(audit_log) : audit_log'[i] = audit_log[i]
    ]_vars

\* C15 witness: the log holds the DOC_CREATED event of a document followed by
\* the DOC_UPLOADED event of the same document.
C15_Witness ==
  /\ Len(audit_log) = 2
  /\ audit_log[1].action = "DOC_CREATED"
  /\ audit_log[2].action = "DOC_UPLOADED"
  /\ audit_log[1].payload.doc_id = audit_log[2].payload.doc_id

C17_OnlyActiveAdminListsModules ==
  [][ \A s \in Slots :
        (/\ req[s].pc = "idle"
         /\ req'[s].kind \in {"list", "listfb"}
         /\ req'[s].hdr # NoHeader
         /\ req'[s].userId # NoUser)
        => LET rows == ProfileRows(req'[s].userId, req'[s].hdr)
               lookupFailed == /\ req'[s].pc = "done"
                               /\ req'[s].resp.status = 500
                               /\ req'[s].resp.error = "PROFILE_LOOKUP_FAILED"
               denied(error) == /\ req'[s].pc = "done"
                                /\ req'[s].resp.status = 403
                                /\ req'[s].resp.error = error
           IN \/ lookupFailed
              \/ /\ \A p \in rows : p.ativo = FALSE
                 /\ denied("NO_PROFILE")
              \/ /\ \E p \in rows : p.ativo = TRUE /\ p.role # "admin"
                 /\ denied("NOT_ADMIN")
              \/ /\ \E p \in rows : p.ativo = TRUE /\ p.role = "admin"
                 /\ req'[s].pc = "seed"
                 /\ req'[s].empresaId = req'[s].hdr
    ]_vars

\* C17 witness: a module list request of an active member who is not an admin
\* has been answered 403 NOT_ADMIN.
C17_Witness ==
  \E s \in Slots :
    /\ req[s].kind \in {"list", "listfb"}
    /\ req[s].pc = "done"
    /\ req[s].resp.status = 403
    /\ req[s].resp.error = "NOT_ADMIN"
    /\ \E p \in ProfileRows(req[s].userId, req[s].hdr) : p.ativo = TRUE /\ p.role # "admin"

\* C17 as stated: a module list request of an active member of the tenant,
\* whatever the role, is not denied.
C17_AnyActiveMemberListsModules ==
  [][ \A s \in Slots :
        (/\ req[s].pc = "idle"
         /\ req'[s].kind \in {"list", "listfb"}
         /\ \E p \in ProfileRows(req'[s].userId, req'[s].hdr) : p.ativo = TRUE)
        => ~ (req'[s].pc = "done" /\ req'[s].resp.status = 403)
    ]_vars

\* C18 as stated: when the audit page has followed next_cursor to the end
\* (a null cursor after a successful load), it shows every event of the
\* tenant exactly once, whatever the limit and whatever the created_at values.
C18_EveryEventExactlyOnce ==
  (pager.pc = "open" /\ pager.err = "" /\ pager.empresaId # NoHeader
   /\ pager.nextCursor = NoCursor)
  => \A i \in 1..Len(audit_log) :
       audit_log[i].empresa_id = pager.empresaId
       => Cardinality({j \in 1..Len(pager.items) : pager.items[j] = audit_log[i]}) = 1

\* C19: a context request answered 200 lists exactly the caller's active
\* memberships, each once, in ascending created_at of the membership; the
\* default tenant is the tenant listed first (null when none is listed); a
\* tenant where the caller's membership is inactive is neither listed nor the
\* default.
C19_ActiveMembershipsInCreationOrder ==
  [][ \A s \in Slots :
        (/\ req[s].pc = "idle"
         /\ req'[s].kind = "context"
         /\ req'[s].resp.status = 200)
        => LET mine == {p \in profiles : p.user_id = req'[s].userId}
               out == req'[s].resp.empresas
               membership(i) == CHOOSE p \in mine : p.empresa_id = out[i].empresa_id
           IN /\ {out[i].empresa_id : i \in 1..Len(out)}
                   = {p.empresa_id : p \in {q \in mine : q.ativo = TRUE}}
              /\ Len(out) = Cardinality({q \in mine : q.ativo = TRUE})
              /\ \A i, j \in 1..Len(out) :
                   i < j => membership(i).created_at <= membership(j).created_at
              /\ \A i \in 1..Len(out) : out[i].role = membership(i).role
              /\ req'[s].resp.default_empresa_id =
                   IF Len(out) > 0 THEN out[1].empresa_id ELSE Null
              /\ \A p \in mine :
                   p.ativo = FALSE => req'[s].resp.default_empresa_id # p.empresa_id
    ]_vars

\* C19 witness: a context request of a user whose oldest membership is
\* inactive and who has a newer active one has been answered 200.
C19_Witness ==
  \E s \in Slots :
    /\ req[s].kind = "context"
    /\ req[s].pc = "done"
    /\ req[s].resp.status = 200
    /\ Len(req[s].resp.empresas) = 1
    /\ \E p, q \in profiles :
         /\ p.user_id = req[s].userId /\ q.user_id = req[s].userId
         /\ p.ativo = FALSE /\ q.ativo = TRUE
         /\ p.created_at < q.created_at
         /\ req[s].resp.default_empresa_id = q.empresa_id

\* C20: a context request of a signed-in user who has no membership is
\* answered 200 with an empty list, a null default and a null profile, unless
\* the membership lookup itself fails, which is answered 500
\* PROFILES_LOOKUP_FAILED; a signed-in user is answered 200 exactly when the
\* lookup did not fail; and the request changes no table.
C20_NoMembershipIsNotAnError ==
  [][ \A s \in Slots :
        (req[s].pc = "idle" /\ req'[s].kind = "context")
        => /\ UNCHANGED <<profiles, modules_enabled, audit_log, settings, docs>>
           /\ req'[s].pc = "done"
           /\ req'[s].userId # NoUser =>
                /\ (req'[s].resp.status = 200) = (req'[s].fault = FALSE)
                /\ req'[s].fault = TRUE =>
                     /\ req'[s].resp.status = 500
                     /\ req'[s].resp.error = "PROFILES_LOOKUP_FAILED"
                /\ (req'[s].fault = FALSE
                    /\ {p \in profiles : p.user_id = req'[s].userId} = {}) =>
                     /\ req'[s].resp.empresas = <<>>
                     /\ req'[s].resp.default_empresa_id = Null
                     /\ req'[s].resp.profile = Null
    ]_vars

\* C20 witness: a context request of a signed-in user who has no membership
\* row has been answered 200 with an empty list and a null default.
C20_Witness ==
  \E s \in Slots :
    /\ req[s].kind = "context"
    /\ req[s].pc = "done"
    /\ req[s].userId # NoUser
    /\ {p \in profiles : p.user_id = req[s].userId} = {}
    /\ req[s].resp.status = 200
    /\ req[s].resp.empresas = <<>>
    /\ req[s].resp.default_empresa_id = Null

\* C25: a toggle request is answered with the error of the first check that
\* fails, in the order header, session, active admin membership, module key,
\* core rule: a caller without an active admin membership gets a membership
\* error whatever the module key is; the step that makes the checks writes no
\* table, and a request it rejects is finished, so it never seeds, writes a
\* flag or writes an audit event.
C25_ChecksInFixedOrder ==
  [][ \A s \in Slots :
        (req[s].pc = "idle" /\ req'[s].kind = "toggle")
        => LET r == req'[s]
               rows == ProfileRows(r.userId, r.hdr)
               rejected(status, error) ==
                 /\ r.pc = "done"
                 /\ r.resp.status = status
                 /\ r.resp.error = error
               isAdmin == \E p \in rows : p.ativo = TRUE /\ p.role = "admin"
           IN /\ UNCHANGED <<modules_enabled, audit_log, toggled>>
              /\ r.pc \in {"done", "seed"}
              /\ IF r.hdr = NoHeader THEN rejected(400, "MISSING_EMPRESA_ID")
                 ELSE IF r.userId = NoUser THEN rejected(401, "MISSING_SESSION")
                 ELSE IF ~isAdmin
                      THEN \/ rejected(500, "PROFILE_LOOKUP_FAILED")
                           \/ rejected(403, "NO_PROFILE")
                           \/ rejected(403, "NOT_ADMIN")
                 ELSE \/ rejected(500, "PROFILE_LOOKUP_FAILED")
                      \/ IF r.moduleKey \notin VALID_MODULES
                         THEN rejected(400, "INVALID_MODULE_KEY")
                         ELSE IF r.moduleKey = "core" /\ r.enabled = FALSE
                              THEN rejected(400, "CORE_CANNOT_BE_DISABLED")
                              ELSE r.pc = "seed"
    ]_vars

\* C25 witness: a toggle of a module key that is not in the catalog, sent by
\* an active member who is not an admin, has been answered 403 NOT_ADMIN.
C25_Witness ==
  \E s \in Slots :
    /\ req[s].kind = "toggle"
    /\ req[s].pc = "done"
    /\ req[s].moduleKey \notin VALID_MODULES
    /\ req[s].resp.status = 403
    /\ req[s].resp.error = "NOT_ADMIN"
    /\ modules_enabled = {}
    /\ audit_log = <<>>

\* C26: the step in which a toggle that committed its flag write gets its
\* audit insert accepted appends exactly one event to the log: action
\* MODULE_TOGGLED, the tenant of the request, the caller's user id, the id of
\* the caller's membership in that tenant, and the module_key and enabled the
\* upsert wrote. No other step of a toggle changes the log, so a toggle that
\* is rejected or fails before its audit step appends nothing.
C26_OneEventPerCommittedToggle ==
  [][ \A s \in Slots :
        /\ (req[s].kind = "toggle" /\ req[s].pc = "audit" /\ req'[s].pc = "done"
            /\ req'[s].resp.audit = "OK")
           => /\ Len(audit_log') = Len(audit_log) + 1
              /\ SubSeq(audit_log', 1, Len(audit_log)) = audit_log
              /\ LET ev == audit_log'[Len(audit_log')] IN
                 /\ ev.action = "MODULE_TOGGLED"
                 /\ ev.empresa_id = req[s].empresaId
                 /\ ev.actor_user_id = req[s].userId
                 /\ \E p \in InitProfiles :
                      /\ p.id = ev.actor_profile_id
                      /\ p.user_id = req[s].userId
                      /\ p.empresa_id = req[s].empresaId
                 /\ ev.payload.module_key = req[s].data.module_key
                 /\ ev.payload.enabled = req[s].data.enabled
                 /\ <<ev.empresa_id, ev.payload.module_key>> \in toggled
        /\ (req'[s].kind = "toggle" /\ req'[s] # req[s]
            /\ ~(req[s].pc = "audit" /\ req'[s].resp.audit = "OK"))
           => audit_log' = audit_log
    ]_vars

\* C26 witness: u2's toggle that disabled docs of t1 has been answered and
\* the log holds its one event, attributed to u2 and u2's membership p2.
C26_Witness ==
  \E s \in Slots :
    /\ req[s].kind = "toggle"
    /\ req[s].pc = "done"
    /\ req[s].userId = "u2"
    /\ req[s].resp.audit = "OK"
    /\ Len(audit_log) = 1
    /\ audit_log[1].actor_user_id = "u2"
    /\ audit_log[1].actor_profile_id = "p2"
    /\ audit_log[1].empresa_id = "t1"
    /\ audit_log[1].payload = [module_key |-> "docs", enabled |-> FALSE, patch |-> ""]

\* C27 as stated: when no audit insert has failed and no toggle is between
\* its flag write and its audit write, for every flag row the enabled value
\* of the latest MODULE_TOGGLED event of its (tenant, module) is the enabled
\* value of the row.
C27_LastEventMatchesFlag ==
  (/\ ~auditLost
   /\ \A s \in Slots : ~(req[s].kind = "toggle" /\ req[s].pc = "audit"))
  => \A row \in modules_enabled :
       LET evs == {i \in 1..Len(audit_log) :
                     /\ audit_log[i].action = "MODULE_TOGGLED"
                     /\ audit_log[i].empresa_id = row.empresa_id
                     /\ audit_log[i].payload.module_key = row.module_key}
       IN evs # {} =>
            audit_log[CHOOSE i \in evs : \A j \in evs : j <= i].payload.enabled
              = row.enabled

\* C28 as stated: whenever the upsert of a toggle request commits a write to
\* modules_enabled, the caller has, at that moment, an active admin
\* membership in the request's tenant.
C28_NoWriteWithoutAdminMembership ==
  [][\A s \in Slots :
       (/\ req[s].kind = "toggle"
        /\ req[s].pc = "upsert"
        /\ req'[s].pc = "audit")
       => \E p \in profiles :
            /\ p.user_id = req[s].userId
            /\ p.empresa_id = req[s].empresaId
            /\ p.ativo = TRUE
            /\ p.role = "admin"]_vars

\* C29: every step of a toggle request for tenant T and module m leaves the
\* flag rows of every other tenant as they were (none changed, removed or
\* added), and for each other module of T that has a row keeps its enabled
\* and enabled_at values; only T's row for m, and rows the seed adds for T,
\* may differ.
C29_ToggleTouchesOnlyItsRow ==
  [][\A s \in Slots :
       (req'[s].kind = "toggle" /\ req'[s] # req[s])
       => LET T == req'[s].empresaId
              m == req'[s].moduleKey
          IN /\ \A row \in modules_enabled :
                  row.empresa_id # T => row \in modules_enabled'
             /\ \A row \in modules_enabled' :
                  row.empresa_id # T => row \in modules_enabled
             /\ \A row \in modules_enabled :
                  (row.empresa_id = T /\ row.module_key # m)
                  => \E kept \in modules_enabled' :
                       /\ kept.empresa_id = T
                       /\ kept.module_key = row.module_key
                       /\ kept.enabled = row.enabled
                       /\ kept.enabled_at = row.enabled_at
             /\ \A k \in VALID_MODULES \ {m} :
                  Cardinality(KeyRows(modules_enabled', T, k)) <= 1]_vars

\* A toggle enabling docs in t1 has committed and answered 200 while the row
\* of docs in t2, disabled by an earlier committed toggle of t2, is still
\* disabled.
C29_Witness ==
  \E s \in Slots :
    /\ req[s].kind = "toggle" /\ req[s].pc = "done" /\ req[s].resp.status = 200
    /\ req[s].empresaId = "t1" /\ req[s].moduleKey = "docs" /\ req[s].enabled = TRUE
    /\ <<"t2", "docs">> \in toggled
    /\ \E row \in KeyRows(modules_enabled, "t1", "docs") : row.enabled = TRUE
    /\ \E row \in KeyRows(modules_enabled, "t2", "docs") : row.enabled = FALSE
    /\ \E row \in KeyRows(modules_enabled, "t1", "people") : row.enabled = FALSE

\* C30: every audit event the audit page has received, over all its pages,
\* and every event of a direct audit listing, belongs to the tenant the
\* caller was admitted for; a module listing answers, per module key, exactly
\* the flag row of the admitted tenant and nothing else.
C30_ListingsStayInTenant ==
  /\ \A i \in 1..Len(pager.items) : pager.items[i].empresa_id = pager.empresaId
  /\ \A s \in Slots :
       (req[s].pc = "done" /\ req[s].resp.status = 200) =>
         /\ req[s].kind = "auditlist" =>
              \A i \in 1..Len(req[s].resp.items) :
                req[s].resp.items[i].empresa_id = req[s].empresaId
         /\ req[s].kind \in {"list", "listfb"} =>
              /\ \A i \in 1..Len(req[s].resp.modules) :
                   \E row \in TenantRows(modules_enabled, req[s].empresaId) :
                     Project(row) = req[s].resp.modules[i]
              /\ \A i, j \in 1..Len(req[s].resp.modules) :
                   i # j => req[s].resp.modules[i].module_key
                              # req[s].resp.modules[j].module_key

\* The module listing of t1 has answered docs disabled while t2's docs row is
\* enabled, and the audit page of t1 has loaded a second page with a cursor
\* from a log that also holds an event of t2.
C30_Witness ==
  /\ req["s1"].kind = "list" /\ req["s1"].pc = "done"
  /\ req["s1"].resp.status = 200 /\ req["s1"].empresaId = "t1"
  /\ \E i \in 1..Len(req["s1"].resp.modules) :
       /\ req["s1"].resp.modules[i].module_key = "docs"
       /\ req["s1"].resp.modules[i].enabled = FALSE
  /\ \E b \in KeyRows(modules_enabled, "t2", "docs") : b.enabled = TRUE
  /\ pager.pc = "open"
  /\ pager.empresaId = "t1"
  /\ pager.limit = <<1>>
  /\ Len(pager.items) = 2
  /\ \E i \in 1..Len(audit_log) : audit_log[i].empresa_id = "t2"

\* The module a route belongs to: /adm and /adm/core/** are the mandatory
\* module's; /adm/<name>/** is the route of the module called <name>.
RouteModule(pathname) ==
  IF pathname = <<>> THEN Null
  ELSE IF pathname = ADM \/ pathname = ADM_CORE
          \/ StartsWith(pathname, ADM_CORE \o <<"/">>) THEN "core"
  ELSE LET rest == SubSeq(pathname, 5, Len(pathname)) IN
       IF StartsWith(pathname, ADM \o <<"/">>) /\ Len(pathname) >= 4
          /\ (rest = <<>> \/ Head(rest) = "/")
       THEN pathname[4]
       ELSE "unknown"

\* C21 as stated: once the guard has settled on a navigation, a route of the
\* mandatory module is shown where the user asked for it; a route whose
\* module is unknown to the catalog, not implemented, or not in the enabled
\* set has been denied and the browser redirected to a safe route.
C21_GuardDeniesUnavailableModules ==
  guard.pc = "settled" =>
    LET m == RouteModule(guard.asked) IN
    /\ m = "core" => (guard.allowed /\ guard.pathname = guard.asked)
    /\ (/\ m \notin {Null, "core"}
        /\ \/ m \notin VALID_MODULES
           \/ ~MODULES[m].implemented
           \/ m \notin guard.enabledKeys)
       => /\ guard.reason \in {"not_implemented", "not_enabled"}
          /\ guard.pathname \in {ADM, ADM_CORE_MODULOS}

\* C22 as stated: when the shell is on a tenant, no List request is in
\* flight, and a listing for that tenant has been delivered since the switch,
\* the enabled set and the menu shown are those of that listing.
C22_ShellShowsActiveTenant ==
  (/\ shell.pc = "on"
   /\ \A s \in Slots : req[s].pc = Idle.pc
   /\ shell.fresh # {})
  => /\ shell.enabledKeys = shell.fresh
     /\ shell.menu = BuildMenu(shell.fresh)

\* C23 as stated: when the answer of a failed toggle is delivered, the page
\* shows the module with the enabled value it had before the toggle started,
\* the set pushed to the header is the one from before the toggle, and the
\* toast is the server's error.
C23_RollbackRestoresPreToggle ==
  [][\A s \in Slots :
       (/\ req[s].kind = "toggle"
        /\ req[s].pc = "done"
        /\ req[s].resp.status # 200
        /\ req'[s].pc = Idle.pc)
       => /\ \E i \in 1..Len(page'.rows) :
               /\ page'.rows[i].module_key = req[s].moduleKey
               /\ page'.rows[i].enabled = page.tog.before
          /\ shell'.enabledKeys = page.tog.headerBefore
          /\ page'.toast = req[s].resp.error]_vars

\* C24 as stated: for every catalog module and desired value, the page's
\* pre-check blocks the toggle exactly when the server answers it with a
\* guardrail error.
C24_ClientBlocksExactlyServerRejections ==
  shell.pc = "on" =>
    \A k \in VALID_MODULES, enabled \in BOOLEAN :
      (ClientPreCheck(k, enabled) # "")
        <=> (ServerGuardrail(shell.userId, shell.empresaId, k, enabled) # "")

\* C24, amended: for every catalog module and desired value, the pre-check
\* blocks the toggle whenever the server would answer it with a guardrail
\* error, and it blocks every toggle of the mandatory module and of a module
\* that is not implemented, whatever the desired value; so the optimistic
\* update never changes the row of core or of an unimplemented module.
C24_ClientBlocksAtLeastServerRejections ==
  [][/\ \A k \in VALID_MODULES, enabled \in BOOLEAN :
          /\ (ServerGuardrail(shell.userId, shell.empresaId, k, enabled) # "")
               => (ClientPreCheck(k, enabled) # "")
          /\ (ClientPreCheck(k, enabled) # "")
               <=> (MODULES[k].locked \/ ~MODULES[k].implemented)
     /\ (page'.busyKey # page.busyKey /\ page'.busyKey # "")
        => /\ ~MODULES[page'.busyKey].locked
           /\ MODULES[page'.busyKey].implemented
           /\ Len(page'.rows) = Len(page.rows)
           /\ \A i \in 1..Len(page.rows) :
                (\/ MODULES[page.rows[i].module_key].locked
                 \/ ~MODULES[page.rows[i].module_key].implemented)
                => page'.rows[i] = page.rows[i]]_vars

\* The page has sent a toggle of docs, and a later click on the switch of
\* core, which the server would accept, was answered by the pre-check.
C24_Witness ==
  /\ page.pc = "on"
  /\ ops > 0
  /\ page.tog.moduleKey = "docs"
  /\ page.toast = "CORE_LOCKED"
  /\ ServerGuardrail(shell.userId, shell.empresaId, "core", TRUE) = ""
  /\ \E i \in 1..Len(page.rows) :
       page.rows[i].module_key = "core" /\ page.rows[i].enabled

\* C31: the step in which a toggle's upsert commits leaves the row of its
\* (tenant, module) with updated_at equal to the time of that step, whether
\* or not the enabled value changed, and the response carries that value;
\* every other step of a toggle request, its rejections and failures
\* included, keeps every existing row, updated_at included.
C31_UpdatedAtAdvancesOnEveryWrite ==
  [][\A s \in Slots :
       (req'[s].kind = "toggle" /\ req'[s] # req[s])
       => IF req[s].pc = "upsert" /\ req'[s].pc = "audit"
          THEN /\ \A row \in KeyRows(modules_enabled', req[s].empresaId, req[s].moduleKey) :
                    row.updated_at = now
               /\ KeyRows(modules_enabled', req[s].empresaId, req[s].moduleKey) # {}
               /\ req'[s].data.updated_at = now
          ELSE \A row \in modules_enabled : row \in modules_enabled']_vars

\* A toggle that enabled docs, seeded enabled at time 0, has committed at
\* time 1 as the only toggle so far: the value did not change and updated_at
\* moved from 0 to 1.
C31_Witness ==
  \E s \in Slots :
    /\ req[s].kind = "toggle" /\ req[s].pc = "done" /\ req[s].resp.status = 200
    /\ req[s].empresaId = "t1" /\ req[s].moduleKey = "docs" /\ req[s].enabled = TRUE
    /\ ~auditLost
    /\ Len(audit_log) = 1
    /\ \A o \in Slots : ~(req[o].kind = "toggle" /\ req[o].pc = "audit")
    /\ \E row \in KeyRows(modules_enabled, "t1", "docs") :
         row.enabled = TRUE /\ row.updated_at = 1
    /\ \E row \in KeyRows(modules_enabled, "t1", "people") : row.updated_at = 0

\* C32: a toggle leaves its seed step either to the upsert or answered 500
\* SEED_FAILED, and leaves its upsert step either to the audit insert or
\* answered 500 DB_ERROR; the step that answers SEED_FAILED writes neither
\* modules_enabled nor audit_log and the step that answers DB_ERROR writes
\* no flag and no audit event, and neither response carries a module or an
\* audit result.
C32_FailedStepAbortsTheCall ==
  [][\A s \in Slots :
       (req[s].kind = "toggle" /\ req'[s] # req[s] /\ req[s].pc \in {"seed", "upsert"})
       => LET failed == IF req[s].pc = "seed" THEN "SEED_FAILED" ELSE "DB_ERROR"
              next == IF req[s].pc = "seed" THEN "upsert" ELSE "audit"
          IN \/ req'[s].pc = next
             \/ /\ req'[s].pc = "done"
                /\ req'[s].resp.status = 500
                /\ req'[s].resp.error = failed
                /\ req'[s].resp.audit = NoResp.audit
                /\ req'[s].resp.module = NoResp.module
                /\ modules_enabled' = modules_enabled
                /\ audit_log' = audit_log
                /\ toggled' = toggled]_vars

\* A toggle whose seed went through and whose upsert failed is answered
\* DB_ERROR: the seeded rows are there, no flag was written and the audit
\* log is empty.
C32_Witness ==
  \E s \in Slots :
    /\ req[s].kind = "toggle" /\ req[s].pc = "done"
    /\ req[s].resp.status = 500 /\ req[s].resp.error = "DB_ERROR"
    /\ req[s].fault
    /\ KeyRows(modules_enabled, req[s].empresaId, req[s].moduleKey) # {}
    /\ toggled = {}
    /\ audit_log = <<>>

\* C33: with a log nobody writes to, a client that keeps asking for the next
\* page ends up with a null next_cursor; and every answered request, the
\* first load or a later page, returns a null next_cursor exactly when the
\* page it returns is empty.
C33_PagingEndsOnTheEmptyPage ==
  /\ (pager.pc = "open") ~> (pager.nextCursor = NoCursor)
  /\ [][(pager' # pager /\ pager'.err = "" /\ pager'.toast = "")
        => ((pager'.nextCursor = NoCursor) <=> (Len(pager'.items) = Len(pager.items)))]_vars

\* A client paging one event at a time has shown two events of its tenant and
\* holds a null cursor: the third request returned the empty page.
C33_Witness ==
  /\ pager.pc = "open" /\ pager.err = "" /\ pager.toast = ""
  /\ pager.limit = <<1>>
  /\ Len(pager.items) = 2
  /\ pager.nextCursor = NoCursor

\* What the guard's rules say of a pathname under an enabled set: shown when
\* no module is resolved, for core, and for a routed, implemented and enabled
\* module.
GuardShows(pathname, keys) ==
  LET m == ResolveModuleFromPath(pathname)
  IN \/ m \in {Null, "core"}
     \/ /\ m \in DOMAIN ROUTES_BY_MODULE
        /\ MODULES[m].implemented
        /\ m \in keys

\* C34: every change of the pathname, of the enabled set or of the active
\* tenant makes the guard evaluate again, and each evaluation decides from
\* the pathname and the enabled set of that moment; so whatever the guard has
\* settled on is shown and allowed under the current enabled set, and a
\* pending redirect is for a route the current enabled set denies.
C34_GuardReevaluatesOnEveryChange ==
  /\ [](guard.pc = "settled" => (guard.allowed /\ GuardShows(guard.pathname, guard.enabledKeys)))
  /\ [](guard.pc = "replace" => (~guard.allowed /\ ~GuardShows(guard.pathname, guard.enabledKeys)))
  /\ [][(\/ guard'.pathname # guard.pathname
         \/ guard'.enabledKeys # guard.enabledKeys
         \/ guard'.empresaId # guard.empresaId) => guard'.pc = "render"]_vars
  /\ [][(guard.pc = "render" /\ guard' # guard)
        => (guard'.allowed <=> GuardShows(guard.pathname, guard.enabledKeys))]_vars

\* The user asked for /adm/docs on a tenant other than the first, whose
\* enabled set lacks docs: the guard has denied it and is about to redirect.
C34_Witness ==
  /\ guard.pc = "replace"
  /\ guard.asked = ROUTES_BY_MODULE["docs"].href
  /\ guard.pathname = guard.asked
  /\ guard.empresaId \in Tenants
  /\ "docs" \notin guard.enabledKeys
  /\ guard.reason = "not_enabled"
  /\ ~guard.allowed

\* C35 as stated: while the shell is on a tenant, the guard holds no denial
\* of a route whose module is implemented and enabled in that tenant's
\* stored flags.
C35_GuardNeverDeniesEnabledModule ==
  (guard.pc = "replace" /\ shell.empresaId \in Tenants /\ guard.empresaId = shell.empresaId)
  => LET m == ResolveModuleFromPath(guard.pathname)
     IN ~(/\ m \in VALID_MODULES
          /\ MODULES[m].implemented
          /\ \E row \in KeyRows(modules_enabled, shell.empresaId, m) : row.enabled)

\* C36: a pending redirect goes to /adm/core/modulos for not_enabled and to
\* /adm for not_implemented, both of which resolve to core; the redirect
\* moves the browser there, the evaluation that follows allows, and so every
\* denial is followed by an allowed state at the redirect target.
C36_RedirectsEndAtCore ==
  /\ [](\A target \in {ADM, ADM_CORE_MODULOS} :
          /\ ResolveModuleFromPath(target) = "core"
          /\ \A keys \in EnabledKeySets : GuardShows(target, keys))
  /\ [](guard.pc = "replace" =>
          /\ guard.reason \in {"not_enabled", "not_implemented"}
          /\ guard.redirect = (IF guard.reason = "not_enabled" THEN ADM_CORE_MODULOS ELSE ADM)
          /\ ResolveModuleFromPath(guard.redirect) = "core")
  /\ [][guard.pc = "replace" => (guard'.pc = "render" /\ guard'.pathname = guard.redirect)]_vars
  /\ [][(guard.pc = "render" /\ guard.reason # "" /\ guard.pathname = guard.redirect
         /\ guard' # guard)
        => (guard'.pc = "settled" /\ guard'.allowed)]_vars
  /\ (guard.pc = "replace")
       ~> (guard.pc = "settled" /\ guard.allowed /\ guard.pathname = guard.redirect)

\* The user asked for /adm/docs without docs enabled and the guard has
\* settled, allowed, on /adm/core/modulos.
C36_Witness ==
  /\ guard.pc = "settled" /\ guard.allowed
  /\ guard.asked = ROUTES_BY_MODULE["docs"].href
  /\ guard.reason = "not_enabled"
  /\ guard.pathname = ADM_CORE_MODULOS
  /\ guard.redirect = ADM_CORE_MODULOS

\* C37: in every state of the shell the enabled set contains core, and the
\* menu is buildMenu of the enabled set: Core comes first and the items after
\* it are, once each, exactly the modules of the enabled set that are
\* implemented and have a route in the registry.
C37_MenuIsBuiltFromEnabledSet ==
  /\ "core" \in shell.enabledKeys
  /\ shell.menu = BuildMenu(shell.enabledKeys)
  /\ Len(shell.menu) >= 1
  /\ shell.menu[1] = "core"
  /\ \A i, j \in 1..Len(shell.menu) : shell.menu[i] = shell.menu[j] => i = j
  /\ {shell.menu[i] : i \in 2..Len(shell.menu)} =
       {k \in shell.enabledKeys \ {"core"} :
          MODULES[k].implemented /\ k \in DOMAIN ROUTES_BY_MODULE}

\* The shell is on a tenant with an enabled set that holds docs and people:
\* the menu shows Core and Docs, and not people, which is not implemented.
C37_Witness ==
  /\ shell.pc = "on"
  /\ shell.empresaId = "t2"
  /\ shell.enabledKeys = {"core", "docs", "people"}
  /\ shell.menu = <<"core", "docs">>

\* C38 as stated: a tenant never holds more than one settings row, and a
\* settings update that was admitted fails only when one of its store calls
\* failed for a reason of its own, never because of another update running
\* at the same time.
C38_ConcurrentFirstUpdatesSucceed ==
  /\ \A e \in Tenants : Cardinality(SettingsRows(e)) <= 1
  /\ \A s \in Slots :
       (/\ req[s].kind = "settings"
        /\ req[s].pc = "done"
        /\ req[s].resp.status = 500
        /\ req[s].resp.error = "DB_ERROR")
       => req[s].fault

\* C39 as stated: a successful docs list shows every document of its tenant
\* whose complete call was answered 200 with uploaded_ok = true.
C39_CompletedDocsListedAsUploaded ==
  \A s \in Slots :
    (req[s].kind = "doclist" /\ req[s].pc = "done" /\ req[s].resp.status = 200)
    => \A id \in completed :
         DocRows(req[s].empresaId, id) # {}
         => \E i \in 1..Len(req[s].resp.items) :
              /\ req[s].resp.items[i].id = id
              /\ req[s].resp.items[i].uploaded_ok

====
